---- MODULE Spec2Model ----
(***************************************************************************)
(* Model of the alexa-photos reconciliation engine (SyncEngine), its       *)
(* mapping store (StateStore) and the Amazon Photos target it drives.      *)
(* One action per stretch of SyncEngine.run() between two awaits.          *)
(***************************************************************************)
EXTENDS Integers, Sequences, FiniteSets, TLC

\* ---------------------------------------------------------------- bounds
\* Number of cycles that get past the single-flight guard in one behaviour.
MaxCycles == 2

\* The source photos that can appear in a listing.
Ids == {"a1", "b1"}

\* The checksums a photo can carry.
Hashes == {"h1", "h2"}

\* The contents of the source album: either both photos carry the same
\* bytes under two source ids, or they differ.
Contents ==
  {[id \in Ids |-> "h1"],
   [id \in Ids |-> IF id = "a1" THEN "h1" ELSE "h2"]}

\* Every listing getPhotos can return: a sequence of distinct photos.
Listings ==
  {s \in UNION {[1..n -> Ids] : n \in 0..Cardinality(Ids)} :
     \A j, k \in DOMAIN s : j # k => s[j] # s[k]}

VARIABLES
  \* SyncEngine fields
  isRunning, amazon, albumId, metrics,
  \* StateStore: the rows of photo_mappings in rowid order
  store,
  \* config.syncDeletions
  syncDeletions,
  \* observation: the cycles the earlier processes of the service ran over
  \* ./data/state.db (0 on a first start)
  prior,
  \* main: the process has exited
  exited,
  \* ICloudPhoto.checksum of every photo of the source album
  checksum,
  \* position and locals of the run() invocation in flight
  pc, startTime, icloudPhotos, mappings, toAdd, toRemove, i,
  photosAdded, photosFailed,
  \* the await run() is suspended at inside ensureAmazonClient ("fromFile",
  \* "checkAuth", "album") or inside an iteration of the additions loop
  \* ("reuse", "download", "upload", "attach", "delay"), and the local
  \* amazonId of addPhoto (0 while unassigned)
  at, amazonId,
  \* Amazon Photos: validity of the cookies, live nodes, content of every
  \* node ever created (indexed by node id), album members, trash
  authValid, nodes, nodeHash, album, trashed,
  \* observation: run() invocations past the guard, started cycles,
  \* getPhotos calls, uploadPhoto calls per checksum, the collaborator calls
  \* of the current cycle, the fate of the last observed trigger
  inFlight, cycles, listCalls, uploadCalls, calls, lastTrigger,
  \* observation: how the last finished cycle ended ("none" before the
  \* first one, "nolisting" when getPhotos rejected, "failed" when the cycle
  \* threw later, "partial" when an addition failed or rows of toRemove
  \* were left behind, "clean" otherwise)
  last,
  \* observation: an operator deleted a mapping since the last diff
  opDelete,
  \* observation: when this cycle got the listing of the cycle before it
  \* and the Store was not touched since that cycle's diff, how that cycle
  \* ended, and "none" otherwise
  rerun,
  \* observation: a StateStore call of this cycle threw
  storeFailed,
  \* config.uploadDelayMs
  uploadDelayMs,
  \* observation: the items of this cycle after which run() suspended for
  \* uploadDelayMs, each with whether addPhoto resolved it by reusing a node
  delays,
  \* a call of a StateStore or AmazonClient method taken on its own: the
  \* method with its arguments and scripted replies, and what it returned
  input, output,
  \* observation: the photos whose mapping an observed operator deleted
  \* since the last diff, and the photos of toAdd among them
  deleted, forced,
  \* SyncEngine.notifications: the NotificationService with its config and
  \* sentAlerts; Date.now(); the sendAlert calls awaiting their channels
  notifications, now, sending,
  \* observation: when each alert was last delivered since its throttle
  \* entry was last cleared, and the last thing done with the service
  delivered, event

vars ==
  <<isRunning, amazon, albumId, metrics, store, syncDeletions, prior,
    checksum, exited, pc, startTime, icloudPhotos, mappings, toAdd, toRemove, i,
    photosAdded, photosFailed, at, amazonId,
    authValid, nodes, nodeHash, album, trashed,
    inFlight, cycles, listCalls, uploadCalls, calls, lastTrigger,
    last, opDelete, rerun, storeFailed, uploadDelayMs, delays,
    input, output, deleted, forced,
    notifications, now, sending, delivered, event>>

engineVars == <<isRunning, amazon, albumId, metrics>>
localVars == <<startTime, icloudPhotos, mappings, toAdd, toRemove, i,
               photosAdded, photosFailed, at, amazonId>>
targetVars == <<nodes, nodeHash, album, trashed>>
ghostVars == <<inFlight, cycles, listCalls, uploadCalls, calls,
               lastTrigger, last, opDelete, rerun, storeFailed, delays,
               deleted, forced>>
configVars == <<syncDeletions, checksum, uploadDelayMs, prior>>
callVars == <<input, output>>
alertVars == <<notifications, now, sending, delivered, event>>

\* ---------------------------------------------------------------- helpers
SeqToSet(s) == {s[k] : k \in DOMAIN s}

MinOf(S) == CHOOSE x \in S : \A y \in S : x <= y

\* ------------------------------------------------------------- StateStore
\* getAllMappings: SELECT * FROM photo_mappings
getAllMappings(st) == st

\* A lookup that never finds a row (no deduplication).
getMappingByChecksumNone(st, sum) == <<>>

\* getMappingByChecksum: the first row with that checksum, <<>> for null
getMappingByChecksum(st, sum) ==
  LET hits == {k \in DOMAIN st : st[k].icloudChecksum = sum}
  IN IF hits = {} THEN <<>> ELSE <<st[MinOf(hits)]>>

\* An insert that never replaces (no primary key on icloud_id).
addMappingAppend(st, icloudId, sum, nodeId, t) ==
  Append(st, [icloudId |-> icloudId, icloudChecksum |-> sum,
              amazonId |-> nodeId, syncedAt |-> t])

\* addMapping: INSERT OR REPLACE, the replaced row goes and the new row
\* gets a fresh rowid, with synced_at = the current time
addMapping(st, icloudId, sum, nodeId, t) ==
  LET Other(r) == r.icloudId # icloudId
  IN Append(SelectSeq(st, Other),
            [icloudId |-> icloudId, icloudChecksum |-> sum,
             amazonId |-> nodeId, syncedAt |-> t])

\* A delete that removes nothing.
removeMappingNone(st, icloudId) == st

\* removeMapping: DELETE ... WHERE icloud_id = ?
removeMapping(st, icloudId) ==
  LET Other(r) == r.icloudId # icloudId
  IN SelectSeq(st, Other)

\* removeMappingByAmazonId: DELETE ... WHERE amazon_id = ?, every row of
\* that node goes
removeMappingByAmazonId(st, nodeId) ==
  LET Other(r) == r.amazonId # nodeId
  IN SelectSeq(st, Other)

\* the removeMapping loop of removePhotos over a batch of rows
removeAll(st, rows) ==
  LET gone == {rows[k].icloudId : k \in DOMAIN rows}
      Other(r) == r.icloudId \notin gone
  IN SelectSeq(st, Other)

StoreIds(st) == {st[k].icloudId : k \in DOMAIN st}

\* getMapping: the row of that photo, <<>> for null
getMapping(st, icloudId) ==
  LET Same(r) == r.icloudId = icloudId
  IN SelectSeq(st, Same)

\* A statement that reports a change whether or not it deleted a row.
ChangesAlways(st, icloudId) == 1

\* stmt.run(id).changes of DELETE ... WHERE icloud_id = ?
Changes(st, icloudId) == IF icloudId \in StoreIds(st) THEN 1 ELSE 0

\* removeMappings: one transaction that runs the delete for every id in
\* turn and adds up the changes; the Store afterwards and the count.
RECURSIVE removeMappings(_, _)
removeMappings(st, icloudIds) ==
  IF icloudIds = <<>>
  THEN [store |-> st, count |-> 0]
  ELSE LET id == Head(icloudIds)
           rest == removeMappings(removeMapping(st, id), Tail(icloudIds))
       IN [store |-> rest.store, count |-> Changes(st, id) + rest.count]

\* The order of the icloud_id strings of the model.
IdOrder == [id \in {"a1", "b1", "c1"} |->
              IF id = "a1" THEN 1 ELSE IF id = "b1" THEN 2 ELSE 3]

\* column = sortBy === "icloud_id" ? "icloud_id" : "synced_at"
SortKey(r, sortBy) ==
  IF sortBy = "icloud_id" THEN IdOrder[r.icloudId] ELSE r.syncedAt

\* ORDER BY column order: every order of the rows the clause allows (rows
\* with equal keys come in an order SQL leaves open).
Ordered(st, sortBy, sortOrder) ==
  LET n == Len(st)
      perms == {p \in [1..n -> 1..n] : \A j, k \in 1..n : j # k => p[j] # p[k]}
      Sorted(p) ==
        \A j, k \in 1..n :
          j < k => IF sortOrder = "asc"
                   THEN SortKey(st[p[j]], sortBy) <= SortKey(st[p[k]], sortBy)
                   ELSE SortKey(st[p[j]], sortBy) >= SortKey(st[p[k]], sortBy)
  IN {[k \in 1..n |-> st[p[k]]] : p \in {q \in perms : Sorted(q)}}

\* A listing that always starts at the first row.
OffsetZero(page, pageSize) == 0

\* offset = (page - 1) * pageSize
Offset(page, pageSize) == (page - 1) * pageSize

\* LIMIT pageSize OFFSET offset over rows in their order (SQLite reads a
\* negative offset as 0)
LimitOffset(rows, pageSize, offset) ==
  LET from == IF offset < 0 THEN 0 ELSE offset
      n == IF Len(rows) - from < 0 THEN 0
           ELSE IF Len(rows) - from < pageSize THEN Len(rows) - from
           ELSE pageSize
  IN [k \in 1..n |-> rows[from + k]]

\* getMappingsPaginated without a search term: every page it can return
getMappingsPaginated(st, page, pageSize, sortBy, sortOrder) ==
  {LimitOffset(rows, pageSize, Offset(page, pageSize)) :
     rows \in Ordered(st, sortBy, sortOrder)}

\* ------------------------------------------------------------- run(): diff
\* A diff that ignores the Store and adds every listed photo again.
ToAddAll(listing, maps) == listing

\* A diff that hands out the new photos last first.
ToAddReversed(listing, maps) ==
  LET NotMapped(id) == id \notin StoreIds(maps)
      s == SelectSeq(listing, NotMapped)
  IN [k \in 1..Len(s) |-> s[Len(s) + 1 - k]]

\* toAdd = icloudPhotos.filter(p => !mappedIds.has(p.id))
ToAdd(listing, maps) ==
  LET NotMapped(id) == id \notin StoreIds(maps)
  IN SelectSeq(listing, NotMapped)

\* A diff that finds nothing to remove.
ToRemoveNone(listing, maps) == <<>>

\* toRemove = mappings.filter(m => !icloudIds.has(m.icloudId))
ToRemove(listing, maps) ==
  LET NotListed(r) == r.icloudId \notin SeqToSet(listing)
  IN SelectSeq(maps, NotListed)

\* needsAmazon
NeedsAmazon(add, rem) == Len(add) > 0 \/ (Len(rem) > 0 /\ syncDeletions)

\* amazonIds = mappings.map(m => m.amazonId)
AmazonIds(rows) == {rows[k].amazonId : k \in DOMAIN rows}

Call(op, ids, ok) == [op |-> op, ids |-> ids, ok |-> ok]

\* ---------------------------------------------------------------- Init
\* No method is under test on its own.
NoCall == [method |-> "none"]

\* The delay between uploads an operator configures (UPLOAD_DELAY_MS).
DelayMs == 1000

\* The row of a photo that an earlier process of the service synced and
\* that is still in the source album.
Present ==
  [icloudId |-> "a1", icloudChecksum |-> "h1", amazonId |-> 1,
   syncedAt |-> 1]

\* The row of a photo that an earlier process of the service synced and
\* that has since gone from the source album.
Synced ==
  [icloudId |-> "c1", icloudChecksum |-> "h1", amazonId |-> 1,
   syncedAt |-> 1]

\* new StateStore() opens ./data/state.db and keeps the rows it holds:
\* none on a first start, the rows of the earlier process on a restart
\* (none again when its cycle found the source album empty).
PriorStores == {<<>>, <<Present>>, <<Synced>>}

\* new SyncEngine(icloud): no client and no album id are cached, the
\* metrics are zero, the Store holds the rows of ./data/state.db, and the
\* target holds the nodes those rows name (numbered in the order of the
\* rows), all of them in the album. config.uploadDelayMs is 0 unless
\* UPLOAD_DELAY_MS is set.
EngineInit ==
  /\ isRunning = FALSE
  /\ amazon = FALSE
  /\ albumId = ""
  /\ metrics = [lastSync |-> <<>>, totalSyncs |-> 0, totalErrors |-> 0,
                amazonAuthenticated |-> FALSE]
  /\ store \in PriorStores
  /\ prior \in {k \in 0..1 : store # <<>> => k = 1}
  /\ syncDeletions \in BOOLEAN
  /\ checksum \in Contents
  /\ exited = FALSE
  /\ pc = "idle"
  /\ startTime = 0
  /\ icloudPhotos = <<>>
  /\ mappings = <<>>
  /\ toAdd = <<>>
  /\ toRemove = <<>>
  /\ i = 0
  /\ photosAdded = 0
  /\ photosFailed = 0
  /\ at = ""
  /\ amazonId = 0
  /\ authValid \in BOOLEAN
  /\ nodes = {store[k].amazonId : k \in DOMAIN store}
  /\ nodeHash = [n \in DOMAIN store |-> store[n].icloudChecksum]
  /\ album = nodes
  /\ trashed = {}
  /\ inFlight = 0
  /\ cycles = 0
  /\ listCalls = 0
  /\ uploadCalls = [h \in Hashes |->
                      Cardinality({n \in DOMAIN nodeHash :
                                     nodeHash[n] = h})]
  /\ calls = <<>>
  /\ lastTrigger = "none"
  /\ last = "none"
  /\ opDelete = FALSE
  /\ rerun = "none"
  /\ storeFailed = FALSE
  /\ uploadDelayMs \in {0, DelayMs}
  /\ delays = <<>>
  /\ input = NoCall
  /\ output = <<>>
  /\ deleted = {}
  /\ forced = {}

\* The environment variables of the notification channels.
AlertEnv == {"ALERT_WEBHOOK_URL", "PUSHOVER_TOKEN", "PUSHOVER_USER"}

\* loadConfig(): the optional keys the application config has under the
\* environment env.
loadConfig(env) ==
  {k \in {"alertWebhookUrl", "pushoverToken", "pushoverUser"} :
     \/ k = "alertWebhookUrl" /\ "ALERT_WEBHOOK_URL" \in env
     \/ k = "pushoverToken" /\ "PUSHOVER_TOKEN" \in env
     \/ k = "pushoverUser" /\ "PUSHOVER_USER" \in env}

\* The channels sendAlert finds configured in the config object the service
\* was constructed with: it reads the keys webhookUrl, pushoverToken and
\* pushoverUser.
Channels(config) ==
  {c \in {"webhook", "pushover"} :
     \/ c = "webhook" /\ "webhookUrl" \in config
     \/ c = "pushover" /\ {"pushoverToken", "pushoverUser"} \subseteq config}

\* The alerts sendAlert is called with.
Alerts ==
  {[message |-> "expired", level |-> "error"],
   [message |-> "expired", level |-> "warning"],
   [message |-> "other", level |-> "error"]}

\* constructor(config, throttleMs = 3600000), in units of the clock
ThrottleMs == 2

\* new NotificationService(config) over the keys of config: sentAlerts is
\* an empty Map.
NotificationService(config) ==
  [config |-> config, sentAlerts |-> <<>>, throttleMs |-> ThrottleMs]

NoEvent ==
  [op |-> "none", message |-> "", level |-> "", result |-> "",
   alerted |-> FALSE]

\* No sendAlert call is in flight and nothing was delivered.
Quiet ==
  /\ now = 1
  /\ sending = [a \in Alerts |-> 0]
  /\ delivered = <<>>
  /\ event = NoEvent

\* The service on a first start, or restarted over the row of a photo
\* that is still in the source album, with no upload delay and none of
\* the variables of the notification channels set.
Init ==
  /\ EngineInit
  /\ store \in {<<>>, <<Present>>}
  /\ prior = Len(store)
  /\ uploadDelayMs = 0
  /\ notifications = NotificationService(loadConfig({}))
  /\ Quiet

\* ------------------------------------------------------- end of a cycle
\* How a cycle that got its listing ended.
Outcome(success, failed, pending) ==
  IF ~success THEN "failed"
  ELSE IF failed = 0 /\ ~pending THEN "clean" ELSE "partial"

\* A catch block that reports the cycle as a success.
LastSyncWriteAsSuccess(old, rec) == <<[rec EXCEPT !.success = TRUE]>>

\* A catch block that leaves lastSync as it was.
LastSyncWriteOnSuccess(old, rec) == IF rec.success THEN <<rec>> ELSE old

\* this.metrics.lastSync = { ... }: the success path and the catch block
\* both assign a new object
LastSyncWrite(old, rec) == <<rec>>

\* A flag that is cleared on the success path only (no finally block).
FlagAfterSuccessOnly(success) == ~success

\* finally { this.isRunning = false }
FlagAfter(success) == FALSE

\* What the caller of run() does with the outcome: is the process gone
\* afterwards?  The timer callback catches a rejection.  The startup call
\* of index.ts is `await sync.run()` in main, whose rejection reaches
\* main().catch and process.exit(1); the startup call of the main that
\* wraps run() in runSyncWithMetrics catches it.
RejectionExits(success) ==
  IF ~success /\ cycles = 1 THEN {TRUE, FALSE} ELSE {FALSE}

\* The tail of run(): the lastSync write of the success path or of the
\* catch block, the counter, the finally block, and what the caller does
\* with the outcome.  m is the metrics record as the cycle left it; the
\* timestamp is the time the cycle started at.
Finish(m, success, added, removed, outcome) ==
  /\ metrics' = [m EXCEPT
       !.lastSync = LastSyncWrite(@,
                      [timestamp |-> startTime, photosAdded |-> added,
                       photosRemoved |-> removed, success |-> success,
                       error |-> ~success]),
       !.totalSyncs = IF success THEN @ + 1 ELSE @,
       !.totalErrors = IF success THEN @ ELSE @ + 1]
  /\ isRunning' = FlagAfter(success)
  /\ pc' = "idle"
  /\ inFlight' = inFlight - 1
  /\ last' = outcome
  /\ exited' \in RejectionExits(success)

\* The cycle goes on to its next await.
Continue(m, nextPc) ==
  /\ metrics' = m
  /\ pc' = nextPc
  /\ UNCHANGED <<isRunning, inFlight, last, exited>>

\* A guard that lets every call through.
RunGuardOff == FALSE

\* ------------------------------------------------------------- run(): guard
\* if (this.isRunning) { warn; return }
RunGuard == isRunning

\* run() is called (timer tick, startup, or any other caller).  Either the
\* guard drops the call, or the cycle starts and awaits getPhotos.  A
\* dropped call changes nothing; an observed one is remembered as the last
\* trigger.  started is the number of cycles counted so far.
TriggerBy(observe, started) ==
  /\ ~exited
  /\ IF RunGuard
     THEN /\ lastTrigger' = IF observe THEN "dropped" ELSE lastTrigger
          /\ UNCHANGED <<engineVars, store, configVars, callVars, alertVars, delays,
                         exited, pc, localVars, authValid, targetVars,
                         inFlight, cycles, listCalls, uploadCalls, calls,
                         last, opDelete, deleted, forced, rerun,
                         storeFailed>>
     ELSE /\ started < MaxCycles
          /\ isRunning' = TRUE
          /\ pc' = "listing"
          /\ startTime' = prior + cycles + 1
          /\ mappings' = <<>>
          /\ toAdd' = <<>>
          /\ toRemove' = <<>>
          /\ i' = 0
          /\ photosAdded' = 0
          /\ photosFailed' = 0
          /\ at' = ""
          /\ amazonId' = 0
          /\ inFlight' = inFlight + 1
          /\ cycles' = cycles + 1
          /\ listCalls' = listCalls + 1
          /\ calls' = <<>>
          /\ lastTrigger' = "started"
          /\ rerun' = "none"
          /\ storeFailed' = FALSE
          /\ delays' = <<>>
          /\ forced' = {}
          /\ UNCHANGED <<amazon, albumId, metrics, store, configVars,
                         callVars, alertVars, exited, icloudPhotos, authValid,
                         targetVars, uploadCalls, last, opDelete, deleted>>

\* getPhotos rejects: the catch block and the finally block run.
ListingFails ==
  /\ pc = "listing"
  /\ Finish(metrics, FALSE, photosAdded, 0, "nolisting")
  /\ UNCHANGED <<amazon, albumId, store, configVars, callVars, alertVars, delays,
                 localVars, authValid, targetVars, cycles, listCalls,
                 uploadCalls, calls, lastTrigger, opDelete, deleted, forced,
                 rerun, storeFailed>>

\* getPhotos resolves and getAllMappings throws: the catch block and the
\* finally block run.
StoreReadFails ==
  /\ pc = "listing"
  /\ \E listing \in Listings : icloudPhotos' = listing
  /\ storeFailed' = TRUE
  /\ Finish(metrics, FALSE, photosAdded, 0, "failed")
  /\ UNCHANGED <<amazon, albumId, store, configVars, callVars, alertVars, delays,
                 startTime, mappings, toAdd, toRemove, i, photosAdded,
                 photosFailed, at, amazonId, authValid, targetVars, cycles,
                 listCalls,
                 uploadCalls, calls, lastTrigger, opDelete, deleted, forced,
                 rerun>>

\* ------------------------------------------------- ensureAmazonClient()
\* A client that is set up again in every cycle.
NeedClientAlways == TRUE

\* if (!this.amazon)
NeedClient == ~amazon

\* A removal branch that ignores the deletion policy.
ProcessRemovalsAlways(rem) == Len(rem) > 0

\* ---------------------------------------------------- run(): removals
\* if (toRemove.length > 0) { if (config.syncDeletions) removePhotos }
ProcessRemovals(rem) == Len(rem) > 0 /\ syncDeletions

\* ------------------------------------------------------ additions loop
\* A loop without the try/catch: the first failed addPhoto ends the cycle.
ItemEscapesOnError(out) == out # "ok"

\* The try/catch around addPhoto in the additions loop: does the error of
\* a failed addPhoto leave the loop?  The catch block absorbs every one.
ItemEscapes(out) == FALSE

\* A loop that also waits after its last item.
SuspendsAfterEvery(delayMs, k, n) == delayMs > 0

\* Rate limiting, after the k-th of n items (k counted from 1):
\* if (config.uploadDelayMs > 0 && i < toAdd.length - 1) await setTimeout
SuspendsAfter(delayMs, k, n) == delayMs > 0 /\ k < n

\* The additions loop from its k-th item to the next await of run(), over
\* the items add and the Store st.  addPhoto starts with the lookup by
\* checksum, which is synchronous: a row sends it to the attach of the
\* reuse path, no row to the download.  A lookup that throws is caught by
\* the loop, counted as a failed photo, and the loop goes on to the
\* rate-limiting timer or to the next item without an await.  The result
\* is the set of places where run() can be suspended next: the item, the
\* await, the node the lookup found, and the lookups that threw on the way.
RECURSIVE Lookups(_, _, _, _)
Lookups(k, add, st, fails) ==
  IF k > Len(add)
  THEN {[i |-> Len(add), at |-> "", amazonId |-> 0, fails |-> fails]}
  ELSE LET existing == getMappingByChecksum(st, checksum[add[k]])
       IN {[i |-> k,
            at |-> IF existing # <<>> THEN "reuse" ELSE "download",
            amazonId |-> IF existing # <<>> THEN existing[1].amazonId
                         ELSE 0,
            fails |-> fails]}
          \cup (IF ItemEscapes("lookupFail")
                THEN {[i |-> k, at |-> "threw", amazonId |-> 0,
                       fails |-> fails + 1]}
                ELSE IF SuspendsAfter(uploadDelayMs, k, Len(add))
                THEN {[i |-> k, at |-> "delay", amazonId |-> 0,
                       fails |-> fails + 1]}
                ELSE Lookups(k + 1, add, st, fails + 1))

\* run() stays suspended inside the same cycle, at await p, holding node
\* in the local amazonId of addPhoto.
Await(p, node) ==
  /\ at' = p
  /\ amazonId' = node
  /\ UNCHANGED <<photosAdded, photosFailed, storeFailed, delays>>

\* run() goes on from the k-th item of the additions loop to its next
\* await: inside addPhoto, at the rate-limiting timer, in removePhotos, or
\* nowhere, when the cycle ends.
Advance(k, add, rem, st, m, added, failed, sf, log) ==
  \E p \in Lookups(k, add, st, 0) :
    /\ i' = p.i
    /\ at' = IF p.at = "threw" THEN "" ELSE p.at
    /\ amazonId' = p.amazonId
    /\ photosAdded' = added
    /\ photosFailed' = failed + p.fails
    /\ storeFailed' = (sf \/ p.fails > 0)
    /\ delays' = IF p.at = "delay"
                 THEN Append(log, [photo |-> add[p.i], reused |-> FALSE])
                 ELSE log
    /\ IF p.at = "threw"
       THEN Finish(m, FALSE, added, 0,
                   Outcome(FALSE, failed + p.fails, TRUE))
       ELSE IF p.at # ""
       THEN Continue(m, "adding")
       ELSE IF ProcessRemovals(rem)
       THEN Continue(m, "detach")
       ELSE Finish(m, TRUE, added, 0,
                   Outcome(TRUE, failed + p.fails, Len(rem) > 0))

\* ------------------------------------------------------- run(): listing
\* getPhotos resolves with a listing: the Store snapshot, the diff, and
\* everything up to the next await: the first await of
\* ensureAmazonClient, of the additions loop or of removePhotos, or the
\* end of the cycle when there is no work for the target.
ListingReturns ==
  /\ pc = "listing"
  /\ \E listing \in Listings :
       LET maps == getAllMappings(store)
           add == ToAdd(listing, maps)
           rem == ToRemove(listing, maps)
       IN /\ icloudPhotos' = listing
          /\ mappings' = maps
          /\ toAdd' = add
          /\ toRemove' = rem
          /\ rerun' = IF listing = icloudPhotos /\ ~opDelete
                      THEN last ELSE "none"
          /\ opDelete' = FALSE
          /\ deleted' = {}
          /\ forced' = deleted \cap SeqToSet(add)
          /\ IF ~NeedsAmazon(add, rem)
             THEN /\ i' = 0
                  /\ Await("", 0)
                  /\ Finish(metrics, TRUE, 0, 0,
                            Outcome(TRUE, 0, Len(rem) > 0))
             ELSE IF NeedClient
             THEN /\ i' = 0
                  /\ Await("fromFile", 0)
                  /\ Continue(metrics, "init")
             ELSE IF albumId = ""
             THEN /\ i' = 0
                  /\ Await("album", 0)
                  /\ Continue(metrics, "init")
             ELSE Advance(1, add, rem, store, metrics, 0, 0, storeFailed,
                          delays)
  /\ UNCHANGED <<amazon, albumId, store, configVars, callVars, alertVars,
                 startTime, authValid, targetVars, cycles, listCalls,
                 uploadCalls, calls, lastTrigger>>

\* ------------------------------------------------- ensureAmazonClient()
\* this.amazon = await AmazonClient.fromFile(...): the file is read and
\* the client is assigned, or the rejection goes to the catch block of
\* run().
FromFileSettles ==
  /\ pc = "init"
  /\ at = "fromFile"
  /\ \E ok \in BOOLEAN :
       /\ amazon' = (amazon \/ ok)
       /\ IF ok
          THEN Await("checkAuth", 0) /\ Continue(metrics, "init")
          ELSE Await("", 0)
               /\ Finish(metrics, FALSE, photosAdded, 0,
                         Outcome(FALSE, 0, TRUE))
  /\ UNCHANGED <<albumId, store, configVars, callVars, alertVars,
                 startTime, icloudPhotos, mappings, toAdd, toRemove, i,
                 authValid, targetVars, cycles, listCalls, uploadCalls,
                 calls, lastTrigger, opDelete, deleted, forced, rerun>>

\* const isAuth = await this.amazon.checkAuth(): false throws, with the
\* client assigned before it left assigned; true sets the metric, and the
\* album lookup follows when no album id is cached.
CheckAuthSettles ==
  /\ pc = "init"
  /\ at = "checkAuth"
  /\ \E ok \in {authValid, FALSE} :
       LET m1 == IF ok THEN [metrics EXCEPT !.amazonAuthenticated = TRUE]
                 ELSE metrics
       IN /\ calls' = Append(calls, Call("checkAuth", {}, ok))
          /\ IF ~ok
             THEN /\ i' = i
                  /\ Await("", 0)
                  /\ Finish(m1, FALSE, photosAdded, 0,
                            Outcome(FALSE, 0, TRUE))
             ELSE IF albumId = ""
             THEN /\ i' = i
                  /\ Await("album", 0)
                  /\ Continue(m1, "init")
             ELSE Advance(1, toAdd, toRemove, store, m1, 0, 0,
                          storeFailed, delays)
  /\ UNCHANGED <<amazon, albumId, store, configVars, callVars, alertVars,
                 startTime, icloudPhotos, mappings, toAdd, toRemove,
                 authValid, targetVars, cycles, listCalls, uploadCalls,
                 lastTrigger, opDelete, deleted, forced, rerun>>

\* this.albumId = await this.amazon.findOrCreateAlbum(name): the id is
\* cached and the additions loop starts, or the rejection goes to the
\* catch block of run().
FindOrCreateAlbumSettles ==
  /\ pc = "init"
  /\ at = "album"
  /\ \E ok \in {authValid, FALSE} :
       /\ calls' = Append(calls, Call("findOrCreateAlbum", {}, ok))
       /\ IF ok
          THEN /\ albumId' = "album-1"
               /\ Advance(1, toAdd, toRemove, store, metrics, 0, 0,
                          storeFailed, delays)
          ELSE /\ albumId' = albumId
               /\ i' = i
               /\ Await("", 0)
               /\ Finish(metrics, FALSE, photosAdded, 0,
                         Outcome(FALSE, 0, TRUE))
  /\ UNCHANGED <<amazon, store, configVars, callVars, alertVars,
                 startTime, icloudPhotos, mappings, toAdd, toRemove,
                 authValid, targetVars, cycles, listCalls, uploadCalls,
                 lastTrigger, opDelete, deleted, forced, rerun>>

\* ensureAmazonClient(), one step for each of its awaits.
EnsureAmazonClient ==
  \/ FromFileSettles
  \/ CheckAuthSettles
  \/ FindOrCreateAlbumSettles

\* ------------------------------------------------------------ addPhoto()
\* The outcomes of the await addPhoto is suspended at.  A target call
\* succeeds only while the cookies are valid; addMapping, the last
\* statement after the attach, can throw.
AddOutcomes(p) ==
  IF p = "download" THEN {"downloadFail", "downloaded"}
  ELSE IF p = "upload"
  THEN {"uploadFail"} \cup (IF authValid THEN {"uploaded"} ELSE {})
  ELSE {"attachFail"} \cup (IF authValid THEN {"ok", "storeFail"} ELSE {})

\* The node uploadPhoto returns for content h: a new node, or on 409 the
\* live node that already holds the same bytes.
UploadedNodes(h) ==
  {Len(nodeHash) + 1} \cup {n \in nodes \ trashed : nodeHash[n] = h}

\* An upload that treats 409 like any other status that is not 2xx.
UploadThrowsOnConflict(status) == status # "created"

\* uploadPhoto: 409 returns the body of the response, 2xx returns the new
\* node, every other status throws.
UploadThrows(status) == status \notin {"created", "conflict"}

\* addPhoto(toAdd[i]) is over with outcome out and the Store st: the
\* try/catch of the loop, the counters, and the way to the next await.
ItemDone(out, st, reused) ==
  LET added == IF out = "ok" THEN photosAdded + 1 ELSE photosAdded
      failed == IF out = "ok" THEN photosFailed ELSE photosFailed + 1
      sf == storeFailed \/ out = "storeFail"
  IN IF ItemEscapes(out)
     THEN /\ i' = i
          /\ at' = ""
          /\ amazonId' = 0
          /\ photosAdded' = added
          /\ photosFailed' = failed
          /\ storeFailed' = sf
          /\ delays' = delays
          /\ Finish(metrics, FALSE, photosAdded, 0,
                    Outcome(FALSE, failed, TRUE))
     ELSE IF SuspendsAfter(uploadDelayMs, i, Len(toAdd))
     THEN /\ i' = i
          /\ at' = "delay"
          /\ amazonId' = 0
          /\ photosAdded' = added
          /\ photosFailed' = failed
          /\ storeFailed' = sf
          /\ delays' = Append(delays, [photo |-> toAdd[i],
                                       reused |-> reused])
          /\ Continue(metrics, "adding")
     ELSE Advance(i + 1, toAdd, toRemove, st, metrics, added, failed, sf,
                  delays)

\* buffer = await this.icloud.downloadPhoto(photo, maxRetries): the bytes
\* arrive and the upload starts, or addPhoto throws.
DownloadSettles ==
  /\ pc = "adding"
  /\ at = "download"
  /\ \E out \in AddOutcomes("download") :
       /\ calls' = Append(calls, Call("download", {},
                                      out # "downloadFail"))
       /\ IF out = "downloadFail"
          THEN ItemDone(out, store, FALSE)
          ELSE /\ i' = i
               /\ Await("upload", 0)
               /\ Continue(metrics, "adding")
  /\ UNCHANGED <<amazon, albumId, store, configVars, callVars, alertVars,
                 startTime, icloudPhotos, mappings, toAdd, toRemove,
                 authValid, targetVars, cycles, listCalls, uploadCalls,
                 lastTrigger, opDelete, deleted, forced, rerun>>

\* const node = await this.uploadPhoto(buffer, filename), the first await
\* of uploadPhotoToAlbum: the node is there and the attach starts, or
\* addPhoto throws.
UploadSettles ==
  /\ pc = "adding"
  /\ at = "upload"
  /\ LET h == checksum[toAdd[i]]
     IN \E out \in AddOutcomes("upload") :
        \E node \in (IF out = "uploaded" THEN UploadedNodes(h) ELSE {0}) :
          LET status == IF node = 0 THEN "error"
                        ELSE IF node \in nodes THEN "conflict"
                        ELSE "created"
              threw == UploadThrows(status)
          IN /\ uploadCalls' = [uploadCalls EXCEPT ![h] = @ + 1]
             /\ calls' = Append(calls, Call("upload", {node} \ {0},
                                            ~threw))
             /\ nodeHash' = IF node = Len(nodeHash) + 1
                            THEN Append(nodeHash, h) ELSE nodeHash
             /\ nodes' = IF node # 0 THEN nodes \cup {node} ELSE nodes
             /\ IF threw
                THEN ItemDone("uploadFail", store, FALSE)
                ELSE /\ i' = i
                     /\ Await("attach", node)
                     /\ Continue(metrics, "adding")
  /\ UNCHANGED <<amazon, albumId, store, configVars, callVars, alertVars,
                 startTime, icloudPhotos, mappings, toAdd, toRemove,
                 authValid, album, trashed, cycles, listCalls,
                 lastTrigger, opDelete, deleted, forced, rerun>>

\* await addToAlbumIfNotPresent(albumId, [amazonId]), of the reuse path of
\* addPhoto or of uploadPhotoToAlbum, and then addMapping, which runs with
\* the node addPhoto holds whatever became of the row the lookup found.
AttachSettles ==
  /\ pc = "adding"
  /\ at \in {"reuse", "attach"}
  /\ \E out \in AddOutcomes(at) :
       LET photo == toAdd[i]
           attached == out # "attachFail"
           st == IF out = "ok"
                 THEN addMapping(store, photo, checksum[photo], amazonId,
                                 startTime)
                 ELSE store
       IN /\ calls' = Append(calls, Call("attach", {amazonId}, attached))
          /\ album' = IF attached THEN album \cup ({amazonId} \cap nodes)
                      ELSE album
          /\ store' = st
          /\ ItemDone(out, st, at = "reuse" /\ out = "ok")
  /\ UNCHANGED <<amazon, albumId, configVars, callVars, alertVars,
                 startTime, icloudPhotos, mappings, toAdd, toRemove,
                 authValid, nodes, nodeHash, trashed, cycles, listCalls,
                 uploadCalls, lastTrigger, opDelete, deleted, forced,
                 rerun>>

\* await setTimeout(config.uploadDelayMs) of the additions loop is over.
RateLimitElapses ==
  /\ pc = "adding"
  /\ at = "delay"
  /\ Advance(i + 1, toAdd, toRemove, store, metrics, photosAdded,
             photosFailed, storeFailed, delays)
  /\ UNCHANGED <<amazon, albumId, store, configVars, callVars, alertVars,
                 startTime, icloudPhotos, mappings, toAdd, toRemove,
                 authValid, targetVars, cycles, listCalls, uploadCalls,
                 calls, lastTrigger, opDelete, deleted, forced, rerun>>

\* addPhoto(), one step for each of its awaits.
AddPhoto ==
  \/ DownloadSettles
  \/ UploadSettles
  \/ AttachSettles

\* --------------------------------------------------------- removePhotos()
\* A batch that purges right after the detach, without trashing.
StepAfterSkipsTrash(step) == "purge"

\* The target calls of a removal batch in the order removePhotos and
\* deleteNodes issue them: removeFromAlbum, then trash, then purge.
StepAfter(step) == IF step = "detach" THEN "trash" ELSE "purge"

\* A batch that never deletes its rows, and one that deletes them even
\* when a target call failed.
RowsAfterBatchNever(st, rows, done) == st

RowsAfterBatchAlways(st, rows, done) == removeAll(st, rows)

\* The Store after the try block of removePhotos: the removeMapping loop
\* runs only when every target call of the batch has resolved.
RowsAfterBatch(st, rows, done) == IF done THEN removeAll(st, rows) ELSE st

\* A failed target call of removePhotos: its catch block logs, and run()
\* goes on to the success path with photosRemoved = toRemove.length.
RemovalFailed ==
  /\ store' = RowsAfterBatch(store, toRemove, FALSE)
  /\ Finish(metrics, TRUE, photosAdded, Len(toRemove),
            Outcome(TRUE, photosFailed, TRUE))

\* removeFromAlbum(albumId, amazonIds), skipped without an album id
Detach ==
  /\ pc = "detach"
  /\ \E ok \in {authValid, FALSE} :
       IF albumId # ""
       THEN /\ calls' = calls \o <<Call("detach", AmazonIds(toRemove), ok)>>
            /\ IF ok
               THEN /\ album' = album \ AmazonIds(toRemove)
                    /\ store' = store
                    /\ Continue(metrics, StepAfter("detach"))
               ELSE /\ album' = album
                    /\ RemovalFailed
       ELSE /\ Continue(metrics, StepAfter("detach"))
            /\ UNCHANGED <<calls, album, store>>
  /\ UNCHANGED <<amazon, albumId, configVars, callVars, alertVars, delays, localVars,
                 authValid, nodes, nodeHash, trashed, cycles, listCalls,
                 uploadCalls, lastTrigger, opDelete, deleted, forced, rerun,
                 storeFailed>>

\* deleteNodes: trash(amazonIds)
Trash ==
  /\ pc = "trash"
  /\ \E ok \in {authValid, FALSE} :
       /\ calls' = calls \o <<Call("trash", AmazonIds(toRemove), ok)>>
       /\ IF ok
          THEN /\ trashed' = trashed \cup (AmazonIds(toRemove) \cap nodes)
               /\ store' = store
               /\ Continue(metrics, StepAfter("trash"))
          ELSE /\ trashed' = trashed
               /\ RemovalFailed
  /\ UNCHANGED <<amazon, albumId, configVars, callVars, alertVars, delays, localVars,
                 authValid, nodes, nodeHash, album, cycles, listCalls,
                 uploadCalls, lastTrigger, opDelete, deleted, forced, rerun,
                 storeFailed>>

\* deleteNodes: purge(amazonIds), then the removeMapping loop and the end
\* of the cycle.  removeMapping can throw at row failAt (0: at none); the
\* rows before it are deleted and the catch block logs the error.
Purge ==
  /\ pc = "purge"
  /\ \E ok \in {authValid, FALSE} :
     \E failAt \in (IF ok THEN 0..Len(toRemove) ELSE {0}) :
       /\ calls' = calls \o <<Call("purge", AmazonIds(toRemove), ok)>>
       /\ storeFailed' = (storeFailed \/ failAt > 0)
       /\ IF ok
          THEN /\ nodes' = nodes \ AmazonIds(toRemove)
               /\ trashed' = trashed \ AmazonIds(toRemove)
               /\ store' = RowsAfterBatch(store,
                             IF failAt = 0 THEN toRemove
                             ELSE SubSeq(toRemove, 1, failAt - 1), TRUE)
               /\ Finish(metrics, TRUE, photosAdded, Len(toRemove),
                         Outcome(TRUE, photosFailed, failAt > 0))
          ELSE /\ UNCHANGED <<nodes, trashed>>
               /\ RemovalFailed
  /\ UNCHANGED <<amazon, albumId, configVars, callVars, alertVars, delays, localVars,
                 authValid, nodeHash, album, cycles, listCalls, uploadCalls,
                 lastTrigger, opDelete, deleted, forced, rerun>>

\* ------------------------------------------------------------ environment
\* A cycle is in flight or another one can still start: what the
\* environment does after the last cycle is seen by no cycle.
Observed == cycles < MaxCycles \/ pc # "idle"

\* The admin API deletes one mapping (AppServer.handleDeleteMapping:
\* getMapping, then removeMapping).  An observed deletion is remembered
\* until the next diff.
OperatorDeleteBy(observe) ==
  /\ Observed
  /\ \E id \in StoreIds(store) :
       /\ store' = removeMapping(store, id)
       /\ deleted' = IF observe THEN deleted \cup {id} ELSE deleted
  /\ opDelete' = TRUE
  /\ UNCHANGED <<engineVars, configVars, callVars, alertVars, delays, exited, pc,
                 localVars, authValid, targetVars, inFlight, cycles,
                 listCalls, uploadCalls, calls, lastTrigger, last, forced,
                 rerun, storeFailed>>

OperatorDelete == OperatorDeleteBy(FALSE)

ObservedDelete == OperatorDeleteBy(TRUE)

\* A synced photo is deleted directly on Amazon Photos, outside the
\* service, between two cycles: its mapping stays in the Store.
TargetDelete ==
  /\ Observed
  /\ pc = "idle"
  /\ \E n \in nodes \cap AmazonIds(store) :
       /\ nodes' = nodes \ {n}
       /\ album' = album \ {n}
       /\ trashed' = trashed \ {n}
  /\ UNCHANGED <<engineVars, store, configVars, callVars, alertVars, exited, pc,
                 localVars, authValid, nodeHash, ghostVars>>

\* The Amazon cookies expire.
CredentialsExpire ==
  /\ Observed
  /\ authValid
  /\ authValid' = FALSE
  /\ UNCHANGED <<engineVars, store, configVars, callVars, alertVars, exited, pc,
                 localVars, targetVars, ghostVars>>

\* The Amazon cookies are renewed.
CredentialsRenew ==
  /\ Observed
  /\ ~authValid
  /\ authValid' = TRUE
  /\ UNCHANGED <<engineVars, store, configVars, callVars, alertVars, exited, pc,
                 localVars, targetVars, ghostVars>>

\* The cycles of the earlier process count as cycles of the service.
Trigger == TriggerBy(FALSE, prior + cycles)

ObservedTrigger == TriggerBy(TRUE, prior + cycles)

\* Only the cycles of this process count.
RerunTrigger == TriggerBy(FALSE, cycles)

Next ==
  \/ Trigger
  \/ ListingFails
  \/ StoreReadFails
  \/ ListingReturns
  \/ EnsureAmazonClient
  \/ AddPhoto
  \/ Detach
  \/ Trash
  \/ Purge
  \/ OperatorDelete
  \/ TargetDelete
  \/ CredentialsExpire
  \/ CredentialsRenew

Spec == Init /\ [][Next]_vars

\* The engine under a caller whose dropped calls are observed, with hard
\* delete configured: every await of run() is one a call can be dropped
\* at.
GuardInit == Init /\ syncDeletions

GuardNext ==
  \/ ObservedTrigger
  \/ ListingFails
  \/ StoreReadFails
  \/ ListingReturns
  \/ EnsureAmazonClient
  \/ AddPhoto
  \/ Detach
  \/ Trash
  \/ Purge
  \/ OperatorDelete
  \/ TargetDelete
  \/ CredentialsExpire
  \/ CredentialsRenew

GuardSpec == GuardInit /\ [][GuardNext]_vars

\* The service restarted over the row of a photo that is still in the
\* source album, running as many cycles as a service on its first start,
\* with nobody deleting nodes on the target behind its back.
RerunInit == Init /\ store = <<Present>>

RerunNext ==
  \/ RerunTrigger
  \/ ListingFails
  \/ StoreReadFails
  \/ ListingReturns
  \/ EnsureAmazonClient
  \/ AddPhoto
  \/ Detach
  \/ Trash
  \/ Purge
  \/ OperatorDelete
  \/ CredentialsExpire
  \/ CredentialsRenew

RerunSpec == RerunInit /\ [][RerunNext]_vars

\* The service restarted with or without a configured upload delay, over
\* an empty Store or over the row of a photo that has gone from the source
\* album.
DelayInit ==
  /\ EngineInit
  /\ store \in {<<>>, <<Synced>>}
  /\ prior = 1
  /\ syncDeletions
  /\ notifications = NotificationService(loadConfig({}))
  /\ Quiet

\* The steps of that service: the timer of the rate limit is one of the
\* awaits of the additions loop.
DelayNext ==
  \/ Trigger
  \/ ListingFails
  \/ StoreReadFails
  \/ ListingReturns
  \/ EnsureAmazonClient
  \/ AddPhoto
  \/ RateLimitElapses
  \/ Detach
  \/ Trash
  \/ Purge
  \/ OperatorDelete
  \/ TargetDelete
  \/ CredentialsExpire
  \/ CredentialsRenew

DelaySpec == DelayInit /\ [][DelayNext]_vars

\* The engine under an operator whose deletions are observed, with hard
\* delete configured.
ResyncInit == Init /\ syncDeletions

ResyncNext ==
  \/ Trigger
  \/ ListingFails
  \/ StoreReadFails
  \/ ListingReturns
  \/ EnsureAmazonClient
  \/ AddPhoto
  \/ Detach
  \/ Trash
  \/ Purge
  \/ ObservedDelete
  \/ TargetDelete
  \/ CredentialsExpire
  \/ CredentialsRenew

ResyncSpec == ResyncInit /\ [][ResyncNext]_vars

\* ------------------------------------------------ StateStore on its own
\* The latest synced_at a row can get.
MaxTime == 2

\* The photos, id lists and pages the callers of the Store pass.
RowIds == Ids \cup {Synced.icloudId}

\* The checksum of a photo and the node that holds its bytes, as addPhoto
\* passes them to addMapping.
Uploads == {[sum |-> "h1", node |-> 1], [sum |-> "h2", node |-> 2]}

IdLists == UNION {[1..n -> RowIds] : n \in 0..2}

Pages == {1, 2, 999}

PageSizes == {2, 50}

\* new Date(): no earlier than the synced_at of any row
Now(st) == {t \in 1..MaxTime : \A k \in DOMAIN st : st[k].syncedAt <= t}

\* A Store over no engine: nothing but the Store and the call changes.
StoreInit ==
  Init /\ store = <<>> /\ syncDeletions /\ authValid /\ checksum["b1"] = "h1"

StoreOnly ==
  UNCHANGED <<engineVars, configVars, exited, pc, localVars, authValid,
              targetVars, ghostVars, alertVars>>

CallAddMapping ==
  /\ \E id \in RowIds, up \in Uploads, t \in Now(store) :
       /\ store' = addMapping(store, id, up.sum, up.node, t)
       /\ input' = [method |-> "addMapping", icloudId |-> id,
                    icloudChecksum |-> up.sum, amazonId |-> up.node,
                    existed |-> id \in StoreIds(store)]
  /\ output' = <<>>
  /\ StoreOnly

CallRemoveMapping ==
  /\ \E id \in RowIds :
       /\ store' = removeMapping(store, id)
       /\ input' = [method |-> "removeMapping", icloudId |-> id]
  /\ output' = <<>>
  /\ StoreOnly

CallRemoveMappingByAmazonId ==
  /\ \E up \in Uploads :
       /\ store' = removeMappingByAmazonId(store, up.node)
       /\ input' = [method |-> "removeMappingByAmazonId",
                    amazonId |-> up.node]
  /\ output' = <<>>
  /\ StoreOnly

CallRemoveMappings ==
  /\ \E ids \in IdLists :
       LET res == removeMappings(store, ids)
       IN /\ store' = res.store
          /\ input' = [method |-> "removeMappings", icloudIds |-> ids]
          /\ output' = res.count
  /\ StoreOnly

CallGetMapping ==
  /\ \E id \in RowIds :
       /\ input' = [method |-> "getMapping", icloudId |-> id]
       /\ output' = getMapping(store, id)
  /\ store' = store
  /\ StoreOnly

CallGetMappingByChecksum ==
  /\ \E sum \in Hashes :
       /\ input' = [method |-> "getMappingByChecksum", checksum |-> sum]
       /\ output' = getMappingByChecksum(store, sum)
  /\ store' = store
  /\ StoreOnly

CallGetMappingsPaginated ==
  /\ \E page \in Pages, pageSize \in PageSizes,
        sortBy \in {"synced_at", "icloud_id"}, sortOrder \in {"asc", "desc"} :
       /\ input' = [method |-> "getMappingsPaginated", page |-> page,
                    pageSize |-> pageSize, sortBy |-> sortBy,
                    sortOrder |-> sortOrder]
       /\ output' \in getMappingsPaginated(store, page, pageSize, sortBy,
                                           sortOrder)
  /\ store' = store
  /\ StoreOnly

StoreNext ==
  \/ CallAddMapping
  \/ CallRemoveMapping
  \/ CallRemoveMappingByAmazonId
  \/ CallRemoveMappings
  \/ CallGetMapping
  \/ CallGetMappingByChecksum
  \/ CallGetMappingsPaginated

StoreSpec == StoreInit /\ [][StoreNext]_vars

\* ---------------------------------------------- AmazonClient on its own
\* request(method, url, options, maxRetries = 3)
MaxRetries == 3

\* What a fetch of request() can meet: 0 for a fetch that rejects, or the
\* status of the response.
Statuses == {0, 200, 401, 409, 500}

\* A retry loop that refreshes the cookies on a 401 of any attempt.
RefreshAllowedAlways(autoRefresh, attempt) == autoRefresh

\* if (this.autoRefresh && attempt === 0)
RefreshAllowed(autoRefresh, attempt) == autoRefresh /\ attempt = 0

\* A loop that returns a response only when it is OK.
ReturnedOkOnly(status) == status \in 200..299

\* if (res.status === 409) return res;  if (res.ok) return res;
Returned(status) == status = 409 \/ status \in 200..299

\* The for loop of request() from the given attempt on.  responses are the
\* answers to the fetches of the attempts 0..maxRetries, refreshOk is what
\* refreshCookies returns.  The log lists <<"fetch", status>>,
\* <<"refresh", 1 or 0>> and <<"backoff", attempt>> in the order they
\* happen; the result is the response returned or the error thrown.
RECURSIVE requestFrom(_, _, _, _, _, _)
requestFrom(attempt, responses, autoRefresh, refreshOk, maxRetries, log) ==
  IF attempt > maxRetries
  THEN [result |-> "unreachable", log |-> log]
  ELSE
    LET status == responses[attempt + 1]
        fetched == Append(log, <<"fetch", status>>)
        refreshed == Append(fetched, <<"refresh", IF refreshOk THEN 1 ELSE 0>>)
    IN IF status = 0
       THEN [result |-> "fetchError", log |-> fetched]
       ELSE IF status = 401
       THEN IF RefreshAllowed(autoRefresh, attempt)
            THEN IF refreshOk
                 THEN requestFrom(attempt + 1, responses, autoRefresh,
                                  refreshOk, maxRetries, refreshed)
                 ELSE [result |-> "authError", log |-> refreshed]
            ELSE [result |-> "authError", log |-> fetched]
       ELSE IF Returned(status)
       THEN [result |-> "response", log |-> fetched]
       ELSE IF attempt < maxRetries
       THEN requestFrom(attempt + 1, responses, autoRefresh, refreshOk,
                        maxRetries, Append(fetched, <<"backoff", attempt>>))
       ELSE [result |-> "apiError", log |-> fetched]

request(responses, autoRefresh, refreshOk, maxRetries) ==
  requestFrom(0, responses, autoRefresh, refreshOk, maxRetries, <<>>)

\* ------------------------------------------------ ICloudClient on its own
\* What an attempt of downloadPhoto can meet: the fetch rejects, the
\* response is not OK, reading the body rejects, or the body is read.
DownloadReplies == {"rejects", "notOk", "bodyFails", "img1", "img2"}

Failures == {"rejects", "notOk", "bodyFails"}

\* A loop that gives up at the first failure.
IsLastAttemptAlways(attempt, maxRetries) == TRUE

\* const isLastAttempt = attempt === maxRetries;
IsLastAttempt(attempt, maxRetries) == attempt = maxRetries

\* The for loop of downloadPhoto from the given attempt on.  replies are
\* the outcomes of the attempts 0..maxRetries.  The log lists
\* <<"fetch", reply>> and <<"delay", attempt>> in the order they happen;
\* the call returns the body or throws.
RECURSIVE downloadFrom(_, _, _, _)
downloadFrom(attempt, replies, maxRetries, log) ==
  IF attempt > maxRetries
  THEN [threw |-> TRUE, result |-> "unreachable", log |-> log]
  ELSE
    LET reply == replies[attempt + 1]
        fetched == Append(log, <<"fetch", reply>>)
    IN IF reply \notin Failures
       THEN [threw |-> FALSE, result |-> reply, log |-> fetched]
       ELSE IF IsLastAttempt(attempt, maxRetries)
       THEN [threw |-> TRUE, result |-> "failed", log |-> fetched]
       ELSE downloadFrom(attempt + 1, replies, maxRetries,
                         Append(fetched, <<"delay", attempt>>))

downloadPhoto(replies, maxRetries) == downloadFrom(0, replies, maxRetries, <<>>)

\* --------------------------------------------- AmazonClient.uploadPhoto
\* The number of POSTs of one uploadPhoto call that are followed.
MaxUploads == 3

\* uploadPhoto(buffer, filename, parentNodeId) from its k-th POST on, the
\* recursive calls included.  responses[k] is the answer to the k-th POST
\* (0 for a fetch that rejects) and refreshes[k] is what refreshCookies
\* returns after it.  The log lists <<"fetch", status>> and
\* <<"refresh", 1 or 0>> in the order they happen; the result is what the
\* call returns or throws, or "pending" when it is still retrying after
\* MaxUploads POSTs.
RECURSIVE uploadFrom(_, _, _, _, _)
uploadFrom(k, responses, refreshes, autoRefresh, log) ==
  IF k > MaxUploads
  THEN [result |-> "pending", log |-> log]
  ELSE
    LET status == responses[k]
        fetched == Append(log, <<"fetch", status>>)
        refreshed == Append(fetched,
                            <<"refresh", IF refreshes[k] THEN 1 ELSE 0>>)
    IN IF status = 0
       THEN [result |-> "fetchError", log |-> fetched]
       ELSE IF status = 409
       THEN [result |-> "duplicate", log |-> fetched]
       ELSE IF status = 401
       THEN IF autoRefresh
            THEN IF refreshes[k]
                 THEN uploadFrom(k + 1, responses, refreshes, autoRefresh,
                                 refreshed)
                 ELSE [result |-> "authError", log |-> refreshed]
            ELSE [result |-> "authError", log |-> fetched]
       ELSE IF status \notin 200..299
       THEN [result |-> "uploadError", log |-> fetched]
       ELSE [result |-> "node", log |-> fetched]

\* The answers to the fetches of the request() call of getRoot, from
\* attempt 0 on: any first answer, then answers that are all OK or all
\* 500.
RootResponses ==
  {r \in [1..(MaxRetries + 1) -> Statuses] :
     \A k \in 2..(MaxRetries + 1) : r[k] = r[2] /\ r[2] \in {200, 500}}

\* What getRoot meets: the answers to its fetches, what refreshCookies
\* returns, and whether the body of the response lists a root node.
Roots ==
  [responses : RootResponses, refreshOk : BOOLEAN, listed : BOOLEAN]

\* No getRoot call is made.
NoRoot == [responses |-> <<>>, refreshOk |-> FALSE, listed |-> FALSE]

\* getRoot(): request("GET", .../nodes, isRoot:true) with the default
\* maxRetries; an error of request() goes through, a body without a root
\* node throws, and otherwise rootNodeId is set.  The log is the log of
\* the request.
getRoot(root, autoRefresh) ==
  LET res == request(root.responses, autoRefresh, root.refreshOk,
                     MaxRetries)
  IN [result |-> IF res.result # "response" THEN res.result
                 ELSE IF root.listed THEN "root" ELSE "noRoot",
      log |-> res.log]

\* uploadPhoto(buffer, filename, parentNodeId) on a client that has no
\* rootNodeId yet: without a parentNodeId it awaits getRoot first, and a
\* throw of getRoot ends the call before any POST.  rootLog is the log of
\* the GET requests, log the log of the POSTs.
uploadPhoto(parentGiven, root, responses, refreshes, autoRefresh) ==
  LET found == IF parentGiven THEN [result |-> "root", log |-> <<>>]
               ELSE getRoot(root, autoRefresh)
      posted == uploadFrom(1, responses, refreshes, autoRefresh, <<>>)
  IN IF found.result # "root"
     THEN [result |-> found.result, log |-> <<>>, rootLog |-> found.log]
     ELSE [result |-> posted.result, log |-> posted.log,
           rootLog |-> found.log]

\* ------------------------------------- AmazonClient: album membership
\* The nodes and the id lists addToAlbumIfNotPresent is called with.
AlbumNodes == {1, 2, 3}

NodeLists == UNION {[1..n -> AlbumNodes] : n \in 0..2}

\* A filter that lets every requested id through.
NotPresentAny(existingIds, id) == TRUE

\* nodeIds.filter((id) => !existingIds.has(id))
NotPresent(existingIds, id) == id \notin existingIds

\* addToAlbumIfNotPresent(albumId, nodeIds) over an album with the given
\* members; fetchOk and addOk tell whether getAlbumNodeIds and the PATCH
\* of addToAlbum resolve.  The log lists the client calls made; the
\* call throws or returns its result.
addToAlbumIfNotPresent(members, nodeIds, fetchOk, addOk) ==
  IF Len(nodeIds) = 0
  THEN [threw |-> FALSE, result |-> [added |-> 0, skipped |-> 0],
        log |-> <<>>]
  ELSE
    LET fetched == <<<<"getAlbumNodeIds", <<>>>>>>
        Fresh(id) == NotPresent(members, id)
        missing == SelectSeq(nodeIds, Fresh)
        skipped == Len(nodeIds) - Len(missing)
        log == IF Len(missing) > 0
               THEN Append(fetched, <<"addToAlbum", missing>>) ELSE fetched
    IN IF ~fetchOk
       THEN [threw |-> TRUE, log |-> fetched]
       ELSE IF Len(missing) > 0 /\ ~addOk
       THEN [threw |-> TRUE, log |-> log]
       ELSE [threw |-> FALSE,
             result |-> [added |-> Len(missing), skipped |-> skipped],
             log |-> log]

\* One call of a client method, on a client that was just constructed.
ClientInit == StoreInit

CallRequest ==
  /\ input = NoCall
  /\ \E maxRetries \in 0..MaxRetries, autoRefresh \in BOOLEAN,
        refreshOk \in BOOLEAN :
       \E responses \in [1..(maxRetries + 1) -> Statuses] :
         /\ input' = [method |-> "request", responses |-> responses,
                      autoRefresh |-> autoRefresh, refreshOk |-> refreshOk,
                      maxRetries |-> maxRetries]
         /\ output' = request(responses, autoRefresh, refreshOk, maxRetries)
  /\ store' = store
  /\ StoreOnly

CallAddToAlbumIfNotPresent ==
  /\ input = NoCall
  /\ \E members \in SUBSET AlbumNodes, nodeIds \in NodeLists,
        fetchOk \in BOOLEAN, addOk \in BOOLEAN :
       /\ input' = [method |-> "addToAlbumIfNotPresent",
                    members |-> members, nodeIds |-> nodeIds,
                    fetchOk |-> fetchOk, addOk |-> addOk]
       /\ output' = addToAlbumIfNotPresent(members, nodeIds, fetchOk, addOk)
  /\ store' = store
  /\ StoreOnly

CallDownloadPhoto ==
  /\ input = NoCall
  /\ \E maxRetries \in 0..MaxRetries :
       \E replies \in [1..(maxRetries + 1) -> DownloadReplies] :
         /\ input' = [method |-> "downloadPhoto", replies |-> replies,
                      maxRetries |-> maxRetries]
         /\ output' = downloadPhoto(replies, maxRetries)
  /\ store' = store
  /\ StoreOnly

\* uploadPhoto is called with a parentNodeId (as its own retry calls it)
\* or without one (as uploadPhotoToAlbum calls it); the POSTs are answered
\* only when the call gets to them.
CallUploadPhoto ==
  /\ input = NoCall
  /\ \E parentGiven \in BOOLEAN, autoRefresh \in BOOLEAN :
     \E root \in (IF parentGiven THEN {NoRoot} ELSE Roots) :
       LET posts == parentGiven \/ getRoot(root, autoRefresh).result = "root"
       IN \E responses \in (IF posts THEN [1..MaxUploads -> Statuses]
                            ELSE {<<>>}),
             refreshes \in (IF posts THEN [1..MaxUploads -> BOOLEAN]
                            ELSE {<<>>}) :
            /\ input' = [method |-> "uploadPhoto",
                         parentGiven |-> parentGiven, root |-> root,
                         responses |-> responses, refreshes |-> refreshes,
                         autoRefresh |-> autoRefresh]
            /\ output' = uploadPhoto(parentGiven, root, responses,
                                     refreshes, autoRefresh)
  /\ store' = store
  /\ StoreOnly

ClientNext ==
  \/ CallRequest
  \/ CallAddToAlbumIfNotPresent
  \/ CallDownloadPhoto
  \/ CallUploadPhoto

ClientSpec == ClientInit /\ [][ClientNext]_vars

\* ------------------------------------------ NotificationService on its own
\* The number of sendAlert calls that can await their channels at once, and
\* the last reading of the clock.
MaxSending == 2
MaxNow == 3

\* The message and level refreshCookies alerts with and clears.
Expired == [message |-> "expired", level |-> "error"]

\* A step of the notification service leaves the engine, the Store and
\* the target alone.
NotifyOnly ==
  UNCHANGED <<engineVars, store, configVars, exited, pc, localVars,
              authValid, targetVars, ghostVars, callVars>>

\* `${level}:${message}`
getAlertKey(message, level) == <<level, message>>

\* The Map m with key set to value, and with key deleted.
MapSet(m, key, value) ==
  [k \in DOMAIN m \cup {key} |-> IF k = key THEN value ELSE m[k]]

MapDelete(m, key) == [k \in DOMAIN m \ {key} |-> m[k]]

\* shouldSendAlert(message, level) at Date.now() = t
shouldSendAlert(svc, message, level, t) ==
  LET key == getAlertKey(message, level)
  IN IF key \notin DOMAIN svc.sentAlerts \/ svc.sentAlerts[key] = 0
     THEN TRUE
     ELSE t - svc.sentAlerts[key] >= svc.throttleMs

\* markAlertSent(message, level) at Date.now() = t
markAlertSent(svc, message, level, t) ==
  [svc EXCEPT !.sentAlerts = MapSet(@, getAlertKey(message, level), t)]

\* clearAlertThrottle(message, level)
clearAlertThrottle(svc, message, level) ==
  [svc EXCEPT !.sentAlerts = MapDelete(@, getAlertKey(message, level))]

\* The next value of event.
Event(op, a, result, alerted) ==
  [op |-> op, message |-> a.message, level |-> a.level, result |-> result,
   alerted |-> alerted]

\* sendAlert(message, level) up to its await: the call returns when the
\* alert is throttled or no channel is configured, and otherwise starts
\* one request per configured channel and awaits them all.
SendAlertBy(a, op, result) ==
  LET go == shouldSendAlert(notifications, a.message, a.level, now)
      outcome == IF ~go THEN "throttled"
                 ELSE IF Channels(notifications.config) = {}
                 THEN "nochannel"
                 ELSE "sending"
  IN /\ sending' = IF outcome = "sending"
                   THEN [sending EXCEPT ![a] = @ + 1] ELSE sending
     /\ event' = Event(op, a, IF op = "sendAlert" THEN outcome ELSE result,
                       TRUE)
     /\ UNCHANGED <<notifications, now, delivered>>

\* The number of sendAlert calls awaiting their channels.
RECURSIVE Total(_, _)
Total(f, S) ==
  IF S = {} THEN 0
  ELSE LET x == CHOOSE y \in S : TRUE IN f[x] + Total(f, S \ {x})

InFlight == Total(sending, Alerts)

SendAlert ==
  /\ InFlight < MaxSending
  /\ \E a \in Alerts : SendAlertBy(a, "sendAlert", "")
  /\ NotifyOnly

\* sendAlert after await Promise.allSettled(promises): the requests of the
\* channels in oks got an OK response, the others failed; sendWebhook and
\* sendPushover catch and log every failure.
SendAlertSettles ==
  /\ \E a \in Alerts, oks \in SUBSET Channels(notifications.config) :
       /\ sending[a] > 0
       /\ sending' = [sending EXCEPT ![a] = @ - 1]
       /\ notifications' = markAlertSent(notifications, a.message, a.level,
                                         now)
       /\ delivered' = IF oks # {}
                       THEN MapSet(delivered,
                                   getAlertKey(a.message, a.level), now)
                       ELSE delivered
       /\ event' = Event("settle", a,
                         IF oks # {} THEN "delivered" ELSE "failed", FALSE)
  /\ now' = now
  /\ NotifyOnly

ClearAlertThrottle ==
  /\ \E a \in Alerts :
       /\ getAlertKey(a.message, a.level) \in DOMAIN notifications.sentAlerts
       /\ notifications' = clearAlertThrottle(notifications, a.message,
                                              a.level)
       /\ delivered' = MapDelete(delivered, getAlertKey(a.message, a.level))
       /\ event' = Event("clearAlertThrottle", a, "", FALSE)
  /\ UNCHANGED <<now, sending>>
  /\ NotifyOnly

\* How a call of refreshCookies can go: a session token is missing, the
\* exchange request or the write of the cookies file throws, the exchange
\* is answered with a status that is not OK, the answer has no at-main
\* cookie, or the cookies are refreshed.
RefreshOutcomes == {"noTokens", "throws", "notOk", "noCookie", "ok"}

\* AmazonClient.refreshCookies of the client the engine constructs, which
\* has notifications.sendAlert as its notificationCallback.
RefreshCookies ==
  /\ InFlight < MaxSending
  /\ \E outcome \in RefreshOutcomes :
       IF outcome = "notOk"
       THEN SendAlertBy(Expired, "refreshCookies", outcome)
       ELSE IF outcome = "ok"
       THEN /\ notifications' = clearAlertThrottle(notifications,
                                                   Expired.message,
                                                   Expired.level)
            /\ delivered' = MapDelete(delivered,
                                      getAlertKey(Expired.message,
                                                  Expired.level))
            /\ event' = Event("refreshCookies", Expired, outcome, FALSE)
            /\ UNCHANGED <<now, sending>>
       ELSE /\ event' = Event("refreshCookies", Expired, outcome, FALSE)
            /\ UNCHANGED <<notifications, now, sending, delivered>>
  /\ NotifyOnly

\* Time passes.
Tick ==
  /\ now < MaxNow
  /\ now' = now + 1
  /\ UNCHANGED <<notifications, sending, delivered, event>>
  /\ NotifyOnly

\* The service on a first start, under every setting of the variables of
\* the notification channels: the SyncEngine constructor passes the
\* application config to the NotificationService.
NotifyInit ==
  /\ EngineInit
  /\ store = <<>> /\ prior = 0 /\ uploadDelayMs = 0
  /\ syncDeletions /\ authValid /\ checksum["b1"] = "h1"
  /\ notifications \in {NotificationService(loadConfig(env)) :
                          env \in SUBSET AlertEnv}
  /\ Quiet

NotifyNext ==
  \/ SendAlert
  \/ SendAlertSettles
  \/ ClearAlertThrottle
  \/ RefreshCookies
  \/ Tick

NotifySpec == NotifyInit /\ [][NotifyNext]_vars

\* The steps of a cycle in flight: every await of run() settles.
CycleStep ==
  \/ ListingFails
  \/ StoreReadFails
  \/ ListingReturns
  \/ EnsureAmazonClient
  \/ AddPhoto
  \/ RateLimitElapses
  \/ Detach
  \/ Trash
  \/ Purge

\* ======================================================================
\* Properties
\* ======================================================================
RemovalOps == {"detach", "trash", "purge"}
AdditionOps == {"download", "upload", "attach"}

\* The target was sent call op for node n in this cycle.
Received(op, n) == \E k \in DOMAIN calls : calls[k].op = op /\ n \in calls[k].ids

\* The target resolved call op of this cycle for node n.
Done(op, n) ==
  \E k \in DOMAIN calls : calls[k].op = op /\ calls[k].ok /\ n \in calls[k].ids

\* This step ends the cycle in flight.
CycleEnds == pc # "idle" /\ pc' = "idle"

\* The purge of this cycle's removal batch resolved.
BatchSucceeded == \E k \in DOMAIN calls : calls[k].op = "purge" /\ calls[k].ok

\* A target call of this cycle's removal batch was rejected.
BatchFailed == \E k \in DOMAIN calls : calls[k].op \in RemovalOps /\ ~calls[k].ok

\* The cycle that last finished wrote lastSync with success = true.
LastSucceeded == metrics.lastSync # <<>> /\ metrics.lastSync[1].success

\* C1: at most one cycle is in flight; while a cycle is running no step,
\* a trigger included, calls getPhotos or starts a cycle, and a dropped
\* trigger changes nothing of the engine: getPhotos is called once per
\* started cycle.
C1_SingleFlight ==
  [][/\ inFlight' <= 1
     /\ listCalls' = cycles'
     /\ isRunning => (listCalls' = listCalls /\ cycles' = cycles)
     /\ (isRunning /\ lastTrigger # "dropped" /\ lastTrigger' = "dropped")
          => UNCHANGED <<engineVars, store, pc, localVars, calls>>]_vars

C1_Witness ==
  isRunning /\ pc = "listing" /\ lastTrigger = "dropped" /\ listCalls = 1

\* C2 as stated: two distinct source ids with the same checksum that both
\* have a row were served by exactly one upload call for that checksum and
\* carry the same amazonId.
C2_Original ==
  \A j, k \in DOMAIN store :
    (j # k /\ store[j].icloudChecksum = store[k].icloudChecksum)
      => /\ uploadCalls[store[j].icloudChecksum] = 1
         /\ store[j].amazonId = store[k].amazonId

\* The step made the lookup of addPhoto for the item it left the loop at.
Looked ==
  /\ pc' = "adding"
  /\ at' \in {"reuse", "download"}
  /\ <<pc, i, at>> # <<pc', i', at'>>

\* C2 amended: a photo processed while the Store holds a row with its
\* checksum causes no upload call and, when its row is written, gets the
\* amazonId of that row; rows with the same checksum carry the same
\* amazonId.  The lookup decides: with a row of the checksum addPhoto
\* holds the node of such a row and goes to the attach, only without one
\* it goes to the download; an upload call is made only for an item that
\* went to the download, and the row written after the attach of the reuse
\* path carries the node addPhoto holds.
C2_DedupWhileMapped ==
  [][/\ Looked
          => LET rows == {k \in DOMAIN store' :
                           store'[k].icloudChecksum = checksum[toAdd'[i']]}
             IN IF rows = {} THEN at' = "download"
                ELSE /\ at' = "reuse"
                     /\ \E k \in rows : store'[k].amazonId = amazonId'
     /\ uploadCalls' # uploadCalls => at = "upload"
     /\ (at' = "upload" /\ at # "upload") => (at = "download" /\ i' = i)
     /\ (pc = "adding" /\ at = "reuse" /\ calls' # calls)
          => \A k \in DOMAIN store' :
               store'[k].icloudId = toAdd[i]
                 => store'[k].amazonId = amazonId
     /\ \A j, k \in DOMAIN store' :
          store'[j].icloudChecksum = store'[k].icloudChecksum
            => store'[j].amazonId = store'[k].amazonId]_vars

C2_Witness ==
  /\ Len(store) = 2
  /\ store[1].icloudChecksum = store[2].icloudChecksum
  /\ store[1].amazonId = store[2].amazonId
  /\ uploadCalls[store[1].icloudChecksum] = 1

\* The items of toAdd whose iteration of the additions loop is over.
Processed == photosAdded + photosFailed

\* C3: a failed addition leaves the failed photo without a row and does
\* not end the cycle: the loop moves on to the next photo, a photo that
\* succeeds gets its row, every photo of toAdd is counted once, and a cycle
\* that reached its additions or removals ends with success = true.  A
\* step that ends an iteration also ends the iterations after it whose
\* lookup throws; of the photos a step ends, only the first can have
\* succeeded.
C3_PerItemIsolation ==
  /\ [](pc = "adding"
          => Processed = (IF at = "delay" THEN i ELSE i - 1))
  /\ [][/\ (pc \in {"listing", "init", "adding"} /\ Processed' > Processed)
             => /\ photosAdded' <= photosAdded + 1
                /\ \A k \in (Processed + 1)..Processed' :
                     IF k = Processed + 1 /\ photosAdded' > photosAdded
                     THEN toAdd'[k] \in StoreIds(store')
                     ELSE toAdd'[k] \notin StoreIds(store')
                /\ Processed' < Len(toAdd')
                     => (pc' = "adding" /\ isRunning'
                         /\ i' \in {Processed', Processed' + 1})
        /\ (pc \in {"adding", "detach", "trash", "purge"} /\ pc' = "idle")
             => (metrics'.lastSync[1].success
                 /\ Processed' = Len(toAdd))]_vars

C3_Witness ==
  /\ pc = "idle"
  /\ Len(toAdd) = 2
  /\ photosFailed = 1
  /\ toAdd[1] \notin StoreIds(store)
  /\ toAdd[2] \in StoreIds(store)
  /\ LastSucceeded

\* C4 as stated: a cycle that has work to do while the cookies are invalid
\* is ended by ensureAmazonClient: it goes to no addition and no removal,
\* leaves the Store alone and is reported with success = false.
C4_AbortWhenInvalid ==
  [][(/\ pc \in {"listing", "init"}
      /\ pc' \notin {"listing", "init"}
      /\ NeedsAmazon(toAdd', toRemove')
      /\ ~authValid)
       => /\ pc' = "idle"
          /\ ~metrics'.lastSync[1].success
          /\ store' = store]_vars

\* C5 as stated: after a hard-delete cycle every row of toRemove is gone
\* from the Store and the target was sent detach, trash and purge for its
\* amazonId.
C5_Original ==
  (pc = "idle" /\ syncDeletions)
    => \A k \in DOMAIN toRemove :
         /\ toRemove[k].icloudId \notin StoreIds(store)
         /\ Received("detach", toRemove[k].amazonId)
         /\ Received("trash", toRemove[k].amazonId)
         /\ Received("purge", toRemove[k].amazonId)

\* C5 amended: after a hard-delete cycle whose purge resolved and whose
\* Store deletes did not throw, every row of toRemove is gone from the
\* Store and the target was sent detach, trash and purge for its
\* amazonId; trash is sent only after detach resolved and purge only
\* after trash resolved; a cycle that ends without a resolved purge leaves
\* every row of toRemove in the Store; a cycle that threw (the read of the
\* Store or the initialisation of the client failed) leaves the Store as
\* it is and sent no call of the batch; and a Store delete throws only
\* after the purge resolved.
C5_HardDelete ==
  /\ []((pc = "idle" /\ syncDeletions /\ BatchSucceeded /\ ~storeFailed)
          => \A k \in DOMAIN toRemove :
               /\ toRemove[k].icloudId \notin StoreIds(store)
               /\ Received("detach", toRemove[k].amazonId)
               /\ Received("trash", toRemove[k].amazonId)
               /\ Received("purge", toRemove[k].amazonId))
  /\ [](syncDeletions
          => \A n \in AmazonIds(toRemove) :
               /\ Received("trash", n) => Done("detach", n)
               /\ Received("purge", n) => Done("trash", n))
  /\ [][(CycleEnds /\ syncDeletions /\ ~BatchSucceeded')
          => \A k \in DOMAIN toRemove' :
               toRemove'[k] \in SeqToSet(store)
                 => toRemove'[k] \in SeqToSet(store')]_vars
  /\ [][(CycleEnds /\ last' = "failed")
          => /\ store' = store
             /\ \A k \in DOMAIN calls' : calls'[k].op \notin RemovalOps]_vars
  /\ [][(pc \in RemovalOps /\ storeFailed' /\ ~storeFailed)
          => BatchSucceeded']_vars

C5_Witness ==
  /\ pc = "idle" /\ syncDeletions /\ Len(toRemove) > 0
  /\ BatchSucceeded /\ ~storeFailed

\* C6: a rejected target call of a removal batch ends the batch without
\* touching the Store, so every row of the batch that is still there is
\* again in the removals computed from the same listing.
C6_FailedBatchKeepsRows ==
  [][(pc \in RemovalOps /\ calls' # calls /\ ~calls'[Len(calls')].ok)
       => /\ store' = store
          /\ pc' = "idle"
          /\ \A k \in DOMAIN toRemove :
               toRemove[k] \in SeqToSet(store)
                 => toRemove[k] \in SeqToSet(ToRemove(icloudPhotos, store'))]_vars

C6_Witness ==
  /\ pc = "idle"
  /\ BatchFailed
  /\ Len(toRemove) > 0
  /\ \A k \in DOMAIN toRemove : toRemove[k] \in SeqToSet(store)

\* C7: the target calls of a removal batch are detach, then trash, then
\* purge, each issued only after the one before it succeeded on the same
\* ids, and the engine deletes rows only in a step that has all three
\* behind it.
C7_RemovalOrder ==
  [][/\ \A k \in DOMAIN calls' :
          /\ calls'[k].op = "trash"
               => \E j \in 1..(k - 1) :
                    /\ calls'[j].op = "detach" /\ calls'[j].ok
                    /\ calls'[j].ids = calls'[k].ids
          /\ calls'[k].op = "purge"
               => \E j \in 1..(k - 1) :
                    /\ calls'[j].op = "trash" /\ calls'[j].ok
                    /\ calls'[j].ids = calls'[k].ids
     /\ (calls' # calls
          /\ \E k \in DOMAIN store : store[k] \notin SeqToSet(store'))
          => /\ Len(calls') >= 3
             /\ calls'[Len(calls')].op = "purge"
             /\ calls'[Len(calls')].ok]_vars

C7_Witness ==
  /\ pc = "idle"
  /\ Len(toRemove) > 0
  /\ Len(calls) >= 3
  /\ calls[Len(calls) - 2].op = "detach"
  /\ calls[Len(calls) - 1].op = "trash"
  /\ calls[Len(calls)].op = "purge"
  /\ calls[Len(calls)].ok
  /\ \A k \in DOMAIN toRemove : toRemove[k].icloudId \notin StoreIds(store)

\* C8: under the append-only policy no step of the engine removes or
\* changes a row of the Store, and the target is never sent a detach, a
\* trash or a purge.
C8_AppendOnly ==
  [][~syncDeletions
       => /\ \A k \in DOMAIN calls' : calls'[k].op \notin RemovalOps
          /\ (calls' # calls \/ <<pc, i, at>>' # <<pc, i, at>>)
               => \A k \in DOMAIN store : store[k] \in SeqToSet(store')]_vars

C8_Witness ==
  /\ ~syncDeletions
  /\ pc = "idle"
  /\ LastSucceeded
  /\ Len(toRemove) > 0
  /\ toRemove[1] \in SeqToSet(store)

\* C9 as stated: a cycle that gets the listing of the completed cycle
\* before it, with the Store untouched in between, has nothing to add and
\* nothing to remove and makes no target call.
C9_Original ==
  rerun \in {"partial", "clean"}
    => (toAdd = <<>> /\ toRemove = <<>> /\ calls = <<>>)

\* C9 amended: a cycle that gets the listing of the cycle before it, with
\* the Store untouched since that cycle's diff, has nothing to add and
\* nothing to remove and makes no target call when that cycle left no work
\* behind; when it did (an addition failed, or rows of toRemove stayed
\* under the append-only policy or after a failed batch), the cycle has
\* that work again, and it makes target calls only when it has a photo to
\* add or, under hard delete, a row to remove.
C9_Idempotent ==
  /\ rerun = "clean" => (toAdd = <<>> /\ toRemove = <<>> /\ calls = <<>>)
  /\ rerun = "partial" => (toAdd # <<>> \/ toRemove # <<>>)
  /\ (rerun \in {"partial", "clean"} /\ ~NeedsAmazon(toAdd, toRemove))
       => calls = <<>>

C9_Witness ==
  rerun = "clean" /\ pc = "idle" /\ Len(store) > 0 /\ cycles = 2

\* C10 as stated: in a cycle no addition call follows a removal call, and
\* a photo whose content was at once in toRemove (under its old id) and in
\* toAdd (under its new id) is kept: after the cycle the node its new row
\* points to is still on the target.
C10_AddedThenKept ==
  /\ \A j, k \in DOMAIN calls :
       (j < k /\ calls[j].op \in RemovalOps) => calls[k].op \notin AdditionOps
  /\ pc = "idle"
       => \A k \in DOMAIN store :
            (/\ store[k].icloudId \in SeqToSet(toAdd)
             /\ \E r \in DOMAIN toRemove :
                  toRemove[r].icloudChecksum = store[k].icloudChecksum)
              => store[k].amazonId \in nodes \ trashed

\* The calls this step added to the log of the cycle.
NewCalls == {calls'[k] : k \in (Len(calls) + 1)..Len(calls')}

InitOps == {"checkAuth", "findOrCreateAlbum"}

\* C11 as stated: the engine writes a row only in a step whose upload or
\* attach-for-reuse succeeded, and the node the new row points to exists
\* on the target when the row is written.
C11_RowReferencesNode ==
  [][(pc = "adding" /\ photosAdded' = photosAdded + 1)
       => /\ \E c \in NewCalls : c.op = "attach" /\ c.ok
          /\ store'[Len(store')].icloudId = toAdd[i]
          /\ store'[Len(store')].amazonId \in nodes']_vars

\* C12 as stated: every finished cycle, a cycle with nothing to do
\* included, has called checkAuth exactly once, and amazonAuthenticated is
\* the result of that call.
C12_AuthCheckedEveryCycle ==
  (pc = "idle" /\ cycles > 0)
    => \E k \in DOMAIN calls :
         /\ calls[k].op = "checkAuth"
         /\ \A j \in DOMAIN calls : calls[j].op = "checkAuth" => j = k
         /\ metrics.amazonAuthenticated = calls[k].ok

\* C13 as stated: while a cycle is in flight getMetrics returns what the
\* cycle before it left; the metrics change only in the step that ends a
\* cycle, all fields at once.
C13_AtomicSnapshot ==
  [][(isRunning /\ isRunning') => metrics' = metrics]_vars

\* C14: the step that ends a cycle, by the success path or by the catch
\* block, assigns lastSync a new record of this cycle (its timestamp,
\* its counts, success, and the error exactly when the cycle threw) and
\* counts the cycle in totalSyncs or totalErrors; no other step touches
\* lastSync.
C14_LastRunWritten ==
  [][/\ CycleEnds
          => /\ Len(metrics'.lastSync) = 1
             /\ metrics'.lastSync # metrics.lastSync
             /\ metrics'.lastSync[1].timestamp = startTime
             /\ metrics'.lastSync[1].photosAdded = photosAdded'
             /\ metrics'.lastSync[1].error = ~metrics'.lastSync[1].success
             /\ metrics'.totalSyncs + metrics'.totalErrors = cycles
             /\ metrics'.totalSyncs =
                  metrics.totalSyncs
                    + (IF metrics'.lastSync[1].success THEN 1 ELSE 0)
     /\ ~CycleEnds => metrics'.lastSync = metrics.lastSync]_vars

C14_Witness ==
  /\ pc = "idle"
  /\ cycles = 2
  /\ metrics.totalSyncs = 1
  /\ metrics.totalErrors = 1
  /\ metrics.lastSync[1].timestamp = 2
  /\ metrics.lastSync[1].error

\* C15 as stated: the lastSync a cycle writes counts the rows the cycle
\* wrote (when no operator deleted one since the diff) and the rows the
\* cycle's removals deleted.
C15_ExactCounts ==
  [][CycleEnds
       => /\ ~opDelete'
               => metrics'.lastSync[1].photosAdded =
                    Cardinality({k \in DOMAIN store' :
                                   store'[k].syncedAt = startTime})
          /\ metrics'.lastSync[1].photosRemoved =
               (IF pc \in RemovalOps THEN Len(store) - Len(store') ELSE 0)]_vars

\* The number of awaits an iteration of the additions loop that is
\* suspended at await p has before it at most, that await included.
AwaitsLeft(p) ==
  CASE p = "download" -> 4
    [] p = "upload" -> 3
    [] p \in {"reuse", "attach"} -> 2
    [] p = "delay" -> 1
    [] p = "fromFile" -> 3
    [] p = "checkAuth" -> 2
    [] p = "album" -> 1
    [] OTHER -> 0

\* The number of awaits a cycle in flight has before it at most.
Rank ==
  CASE pc = "idle" -> 0
    [] pc = "purge" -> 1
    [] pc = "trash" -> 2
    [] pc = "detach" -> 3
    [] pc = "adding" -> 3 + 4 * (Len(toAdd) - i) + AwaitsLeft(at)
    [] pc = "init" -> 3 + 4 * Len(toAdd) + AwaitsLeft(at)
    [] pc = "listing" -> 7 + 4 * Cardinality(Ids)

\* C16: the flag is set exactly while a cycle is in flight and is clear
\* once the cycle has ended, by the success path or by a throw; a cycle
\* in flight always has a next step and every step brings it closer to
\* its end, so that it ends once its awaits settle; the guard drops a call
\* of run() only while a cycle is in flight, and a call made otherwise
\* starts a cycle.
C16_ReturnsToIdle ==
  /\ [](isRunning <=> pc # "idle")
  /\ [](isRunning => ENABLED CycleStep)
  /\ [][(pc # "idle" /\ <<pc, i, at>>' # <<pc, i, at>>)
          => Rank' < Rank]_vars
  /\ [](pc = "idle" => ~RunGuard)
  /\ [][(pc = "idle" /\ pc' # "idle")
          => (lastTrigger' = "started" /\ pc' = "listing")]_vars

C16_Witness ==
  /\ cycles = 2
  /\ isRunning
  /\ pc = "listing"
  /\ lastTrigger = "started"
  /\ metrics.totalErrors = 1

\* C17 as stated: a cycle that threw, the startup cycle included, leaves
\* the process running.
C17_PollingSurvives == metrics.totalErrors > 0 => ~exited

\* C18 as stated: a cycle in which a StateStore call threw is reported
\* with success = false.
C18_StoreFailureIsFatal ==
  (pc = "idle" /\ storeFailed) => ~LastSucceeded

\* C19 as stated: ensureAmazonClient runs only in a cycle that has work
\* for the target, and it starts an initialisation (whose calls are
\* checkAuth and findOrCreateAlbum) only when no earlier cycle has done so
\* (no client is cached yet).
C19_Original ==
  [][(pc = "listing" /\ pc' = "init")
       => (NeedsAmazon(toAdd', toRemove') /\ ~amazon)]_vars

\* C19 amended: ensureAmazonClient runs only in a cycle that has work for
\* the target; the client is loaded only while none is cached and
\* checkAuth is called only on a client that was just loaded, so at most
\* once; findOrCreateAlbum is called only while no album id is cached, so
\* again after a failed initialisation; once the album id is cached,
\* client and album id stay as they are and no later cycle calls
\* checkAuth or findOrCreateAlbum.
C19_LazyInit ==
  [][/\ pc = "init" => NeedsAmazon(toAdd, toRemove)
     /\ (at' = "fromFile" /\ at # "fromFile") => ~amazon
     /\ (at' = "checkAuth" /\ at # "checkAuth")
          => (at = "fromFile" /\ ~amazon)
     /\ (at' = "album" /\ at # "album") => albumId = ""
     /\ \A c \in NewCalls :
          /\ c.op = "checkAuth" => at = "checkAuth"
          /\ c.op = "findOrCreateAlbum" => (at = "album" /\ albumId = "")
          /\ c.op \in InitOps => pc = "init"
     /\ amazon => amazon'
     /\ albumId # "" => (amazon /\ albumId' = albumId)]_vars

C19_Witness ==
  /\ cycles = 2
  /\ pc = "adding"
  /\ calls = <<>>
  /\ amazon
  /\ albumId # ""
  /\ metrics.totalSyncs = 1

\* C20: an upload that the target answers with 409 is a successful call,
\* made once: it creates no node, yields the node that already holds the
\* bytes, addPhoto goes on to attach that node, and the photo is mapped to
\* it when its row is written.
C20_ConflictIsSuccess ==
  [][/\ \A c \in NewCalls :
          (c.op = "upload" /\ c.ids \cap nodes # {})
            => /\ c.ok
               /\ uploadCalls'[checksum[toAdd[i]]] =
                    uploadCalls[checksum[toAdd[i]]] + 1
               /\ nodes' = nodes
               /\ nodeHash' = nodeHash
               /\ pc' = "adding" /\ i' = i /\ at' = "attach"
               /\ {amazonId'} = c.ids
     /\ (pc = "adding" /\ at = "attach" /\ photosAdded' > photosAdded)
          => /\ store'[Len(store')].icloudId = toAdd[i]
             /\ store'[Len(store')].amazonId = amazonId]_vars

C20_Witness ==
  \E j, k \in DOMAIN calls :
    /\ j < k
    /\ calls[j].op = "upload" /\ calls[j].ok
    /\ calls[k].op = "upload" /\ calls[k].ok
    /\ calls[j].ids = calls[k].ids
    /\ calls[k].ids \subseteq AmazonIds(store)

\* ------------------------------------------------ rate limiting, order
\* The first n items of s.
Prefix(s, n) == [k \in 1..n |-> s[k]]

\* The awaits of addPhoto.
ItemAwaits == {"reuse", "download", "upload", "attach"}

\* This step ends the iteration of the additions loop that was suspended
\* in addPhoto.
ItemStep == pc = "adding" /\ at \in ItemAwaits /\ Processed' > Processed

\* C21: with a delay configured the engine has suspended once after every
\* processed item of toAdd but the last one, in their order, and never
\* after the last one; with no delay configured it has never suspended.
\* While it is suspended, the item it has just processed is not the last.
C21_DelayBetweenItems ==
  /\ [k \in DOMAIN delays |-> delays[k].photo]
       = IF uploadDelayMs > 0
         THEN Prefix(toAdd, MinOf({Processed, Len(toAdd) - 1}))
         ELSE <<>>
  /\ at = "delay"
       => (pc = "adding" /\ uploadDelayMs > 0 /\ i < Len(toAdd)
           /\ Len(delays) = i)

C21_Witness ==
  /\ uploadDelayMs > 0
  /\ Len(toAdd) = 2
  /\ Processed = 2
  /\ Len(delays) = 1

\* C22: the engine never suspends after an item that was resolved by
\* checksum deduplication (an existing node was reused, nothing uploaded).
C22_NoDelayAfterReuse ==
  \A k \in DOMAIN delays : ~delays[k].reused

\* C23 as stated: when the photo whose mapping an operator deleted is
\* added again and the addition succeeds, the photo was uploaded by that
\* addition and has a row afterwards.
C23_Original ==
  [][(ItemStep /\ toAdd[i] \in forced /\ photosAdded' = photosAdded + 1)
       => /\ at = "attach"
          /\ toAdd[i] \in StoreIds(store')]_vars

\* This step takes the diff of a cycle.
DiffStep ==
  /\ pc = "listing"
  /\ pc' # "listing"
  /\ ~(pc' = "idle" /\ last' \in {"nolisting", "failed"})

\* C23, amended: the diff after an operator deleted the mapping of a photo
\* that is still listed puts the photo in toAdd; the addition of such a
\* photo uploads it, unless a row with the same checksum exists when
\* addPhoto looks it up, whose node is then reused without an upload; the
\* photo has a row afterwards exactly when the addition succeeded.
C23_Resync ==
  [][/\ DiffStep
          => deleted \cap SeqToSet(icloudPhotos') \subseteq SeqToSet(toAdd')
     /\ (Looked /\ toAdd'[i'] \in forced')
          => (at' = "reuse"
                <=> \E k \in DOMAIN store' :
                      /\ store'[k].icloudChecksum = checksum[toAdd'[i']]
                      /\ store'[k].amazonId = amazonId')
     /\ (pc = "adding" /\ at = "reuse" /\ pc' = "adding" /\ i' = i)
          => at' \in {"reuse", "delay"}
     /\ uploadCalls' # uploadCalls => at = "upload"
     /\ (at' = "upload" /\ at # "upload") => (at = "download" /\ i' = i)
     /\ (ItemStep /\ toAdd[i] \in forced)
          => LET x == toAdd[i]
                 ok == photosAdded' = photosAdded + 1
             IN /\ ok <=> x \in StoreIds(store')
                /\ ok => /\ at \in {"reuse", "attach"}
                         /\ store'[Len(store')].icloudId = x
                         /\ store'[Len(store')].amazonId = amazonId
                /\ (ok /\ at = "attach")
                     => \E k \in DOMAIN calls :
                          /\ calls[k].op = "upload" /\ calls[k].ok
                          /\ calls[k].ids = {amazonId}]_vars

C23_Witness ==
  \E x \in forced :
    /\ x \in StoreIds(store)
    /\ uploadCalls[checksum[x]] = 2
    /\ cycles = 2

\* The items of s appear in t, in the same order.
InOrderOf(s, t) ==
  \E f \in [DOMAIN s -> DOMAIN t] :
    /\ \A k \in DOMAIN s : t[f[k]] = s[k]
    /\ \A j, k \in DOMAIN s : j < k => f[j] < f[k]

\* C24: the additions are the new photos in the order of the listing; the
\* loop is suspended in the iteration of the item that follows the items
\* already processed, or after it at the rate-limiting timer: every
\* addition call and every row written belong to that item, and the loop
\* moves forward only, to an item whose predecessors are all over.
C24_SequentialInOrder ==
  /\ [](pc # "idle" => InOrderOf(toAdd, icloudPhotos))
  /\ [](pc = "adding"
          => /\ i \in 1..Len(toAdd)
             /\ Processed = (IF at = "delay" THEN i ELSE i - 1))
  /\ [][\A c \in NewCalls :
          c.op \in AdditionOps
            => (pc = "adding" /\ at \in ItemAwaits
                /\ (ItemStep \/ (pc' = "adding" /\ i' = i)))]_vars
  /\ [][(pc = "adding" /\ pc' = "adding") => i' >= i]_vars
  /\ [][StoreIds(store') \ StoreIds(store) # {}
          => (ItemStep
              /\ StoreIds(store') \ StoreIds(store) = {toAdd[i]})]_vars

C24_Witness ==
  /\ icloudPhotos = <<"b1", "a1">>
  /\ toAdd = icloudPhotos
  /\ Processed = 2
  /\ Len(store) = 2
  /\ store[1].icloudId = "b1"
  /\ store[2].icloudId = "a1"

\* ------------------------------------------------------------ StateStore
\* The rows of st with that checksum.
RowsWith(st, sum) == {st[k] : k \in {j \in DOMAIN st : st[j].icloudChecksum = sum}}

\* C25: the Store never holds two rows with the same icloudId; addMapping
\* for an id that has a row leaves the number of rows as it is, and after
\* any addMapping the row of the id carries the checksum and the node that
\* were passed and a synced_at no earlier than any other, while the rows
\* of the other ids are as before.
C25_OneRowPerSourceId ==
  /\ [](\A j, k \in DOMAIN store :
          j # k => store[j].icloudId # store[k].icloudId)
  /\ [][input'.method = "addMapping"
          => LET id == input'.icloudId
                 row == getMapping(store', id)
             IN /\ Len(store') = IF id \in StoreIds(store)
                                 THEN Len(store) ELSE Len(store) + 1
                /\ Len(row) = 1
                /\ row[1].icloudChecksum = input'.icloudChecksum
                /\ row[1].amazonId = input'.amazonId
                /\ \A k \in DOMAIN store : store[k].syncedAt <= row[1].syncedAt
                /\ \A o \in RowIds \ {id} :
                     getMapping(store', o) = getMapping(store, o)]_vars

C25_Witness ==
  /\ input.method = "addMapping"
  /\ input.existed
  /\ Len(store) = 2
  /\ store[2].icloudId = input.icloudId
  /\ store[2].icloudChecksum = "h2"
  /\ store[2].syncedAt = 2

\* C26: getMappingByChecksum returns null exactly when no row has the
\* checksum; otherwise it returns a row with that checksum, and always the
\* same one for the same Store: the one that was inserted first.
C26_LookupByChecksum ==
  input.method = "getMappingByChecksum"
    => LET hits == {k \in DOMAIN store :
                      store[k].icloudChecksum = input.checksum}
       IN /\ output = <<>> <=> hits = {}
          /\ hits # {}
               => /\ Len(output) = 1
                  /\ output[1] \in RowsWith(store, input.checksum)
                  /\ output[1] = store[MinOf(hits)]

C26_Witness ==
  /\ input.method = "getMappingByChecksum"
  /\ Cardinality(RowsWith(store, input.checksum)) = 2
  /\ Len(output) = 1
  /\ output[1] = store[1]

\* C27: removeMappings returns the number of rows it removed: an id
\* without a row (or given twice) adds nothing and raises nothing; after
\* the call no given id has a row and every other row is as before, in
\* the same order.
C27_BulkDeleteCount ==
  [][input'.method = "removeMappings"
       => LET given == SeqToSet(input'.icloudIds)
              Kept(r) == r.icloudId \notin given
          IN /\ output' = Cardinality(given \cap StoreIds(store))
             /\ output' = Len(store) - Len(store')
             /\ StoreIds(store') \cap given = {}
             /\ store' = SelectSeq(store, Kept)]_vars

C27_Witness ==
  /\ input.method = "removeMappings"
  /\ Len(input.icloudIds) = 2
  /\ input.icloudIds[1] # input.icloudIds[2]
  /\ output = 1
  /\ Len(store) = 1

\* C28: a page whose number lies beyond the last page is the empty
\* sequence, not an error: with offset = (page - 1) * pageSize at or past
\* the number of rows, getMappingsPaginated returns no row.
C28_PageBeyondLast ==
  (/\ input.method = "getMappingsPaginated"
   /\ (input.page - 1) * input.pageSize >= Len(store))
    => output = <<>>

C28_Witness ==
  /\ input.method = "getMappingsPaginated"
  /\ input.page = 999
  /\ input.pageSize = 50
  /\ Len(store) = 3
  /\ output = <<>>

\* ---------------------------------------------------------- AmazonClient
\* C29: an add is issued only after the membership of the album was
\* fetched, and only for the requested ids that are not members, in the
\* order they were requested; no add is issued when every requested id is
\* a member; a call that returns reports added + skipped equal to the
\* number of requested ids, added being the number of ids it sent.
C29_AddOnlyMissing ==
  input.method = "addToAlbumIfNotPresent"
    => LET Missing(id) == id \notin input.members
           missing == SelectSeq(input.nodeIds, Missing)
           adds == {k \in DOMAIN output.log :
                      output.log[k][1] = "addToAlbum"}
       IN /\ \A k \in adds :
               /\ k = 2
               /\ output.log[1][1] = "getAlbumNodeIds"
               /\ output.log[k][2] = missing
               /\ missing # <<>>
          /\ missing = <<>> => adds = {}
          /\ (input.nodeIds # <<>> /\ output.log # <<>>)
               => output.log[1][1] = "getAlbumNodeIds"
          /\ ~output.threw
               => /\ output.result.added + output.result.skipped
                       = Len(input.nodeIds)
                  /\ output.result.added = Len(missing)
                  /\ missing # <<>> => adds # {}

C29_Witness ==
  /\ input.method = "addToAlbumIfNotPresent"
  /\ input.nodeIds = <<1, 2>>
  /\ input.members = {1}
  /\ ~output.threw
  /\ output.result = [added |-> 1, skipped |-> 1]
  /\ output.log = <<<<"getAlbumNodeIds", <<>>>>, <<"addToAlbum", <<2>>>>>>

\* C30: a fetch answered 401 is never followed by a backoff.  Either it is
\* the last thing request() does and the authentication error is thrown,
\* or autoRefresh is on, it was the fetch of the first attempt and one
\* cookie refresh follows; when the refresh fails the authentication
\* error is thrown, when it succeeds the next thing is the retried fetch
\* (with maxRetries = 0 no attempt is left to retry and the call throws).
\* With autoRefresh off and 401 as the first answer there is one fetch.
C30_UnauthorizedNotRetried ==
  input.method = "request"
    => LET log == output.log
           n == Len(log)
           refreshes == {k \in 1..n : log[k][1] = "refresh"}
       IN /\ \A k \in 1..n :
               (log[k][1] = "fetch" /\ log[k][2] = 401)
                 => \/ k = n /\ output.result = "authError"
                    \/ /\ k < n
                       /\ log[k + 1][1] = "refresh"
                       /\ input.autoRefresh
                       /\ k = 1
                       /\ IF log[k + 1][2] = 1
                          THEN /\ input.refreshOk
                               /\ IF input.maxRetries > 0
                                  THEN /\ k + 2 <= n
                                       /\ log[k + 2][1] = "fetch"
                                  ELSE /\ k + 1 = n
                                       /\ output.result = "unreachable"
                          ELSE /\ k + 1 = n
                               /\ output.result = "authError"
          /\ \A k \in refreshes : k = 2 /\ log[1] = <<"fetch", 401>>
          /\ (~input.autoRefresh /\ input.responses[1] = 401)
               => /\ log = <<<<"fetch", 401>>>>
                  /\ output.result = "authError"
          /\ output.result = "authError"
               => \E k \in 1..n : log[k] = <<"fetch", 401>>

C30_Witness ==
  /\ input.method = "request"
  /\ input.autoRefresh
  /\ output.result = "response"
  /\ output.log = <<<<"fetch", 401>>, <<"refresh", 1>>, <<"fetch", 200>>>>

\* ----------------------------------------------------------- retries
\* The positions of log whose entry is of the given kind.
Entries(log, kind) == {k \in DOMAIN log : log[k][1] = kind}

\* C31: downloadPhoto(photo, maxRetries) makes at most maxRetries + 1
\* fetch attempts.  It returns the body of the first attempt that
\* succeeded, and that attempt is its last; it throws only when
\* maxRetries + 1 attempts were made and every one failed (one attempt
\* when maxRetries is 0), and then it does throw.
C31_DownloadAttempts ==
  input.method = "downloadPhoto"
    => LET log == output.log
           fetches == Entries(log, "fetch")
           n == input.maxRetries
           failed == {k \in 1..(n + 1) : input.replies[k] \in Failures}
       IN /\ Cardinality(fetches) <= n + 1
          /\ Cardinality(fetches) >= 1
          /\ ~output.threw
               => \E k \in 1..(n + 1) :
                    /\ k \notin failed
                    /\ 1..(k - 1) \subseteq failed
                    /\ output.result = input.replies[k]
                    /\ Cardinality(fetches) = k
                    /\ log[Len(log)] = <<"fetch", input.replies[k]>>
          /\ output.threw
               <=> (Cardinality(fetches) = n + 1 /\ failed = 1..(n + 1))
          /\ output.threw => output.result = "failed"

C31_Witness ==
  /\ input.method = "downloadPhoto"
  /\ input.maxRetries = 2
  /\ input.replies = <<"rejects", "notOk", "bodyFails">>
  /\ output.threw
  /\ Cardinality(Entries(output.log, "fetch")) = 3

\* C36: request() with maxRetries = n makes at most n + 1 fetches and at
\* most one cookie refresh.  When it returns, the response is the OK or
\* 409 answer of its last fetch and no earlier fetch was answered OK or
\* 409; when the fetch of attempt n was made and its answer was neither,
\* the call throws, as it does whenever it does not return.
C36_RequestBounded ==
  input.method = "request"
    => LET log == output.log
           fetches == Entries(log, "fetch")
           n == input.maxRetries
           Good(status) == status = 409 \/ status \in 200..299
       IN /\ Cardinality(fetches) <= n + 1
          /\ Cardinality(fetches) >= 1
          /\ Cardinality(Entries(log, "refresh")) <= 1
          /\ \A k \in fetches :
               log[k][2] = input.responses[Cardinality({j \in fetches : j <= k})]
          /\ output.result = "response"
               <=> /\ Good(log[Len(log)][2])
                   /\ log[Len(log)][1] = "fetch"
          /\ \A k \in fetches : Good(log[k][2]) => k = Len(log)
          /\ output.result
               \in {"response", "fetchError", "authError", "apiError",
                    "unreachable"}
          /\ (Cardinality(fetches) = n + 1 /\ ~Good(input.responses[n + 1]))
               => output.result # "response"

C36_Witness ==
  /\ input.method = "request"
  /\ input.maxRetries = 2
  /\ input.responses = <<500, 500, 409>>
  /\ output.result = "response"
  /\ output.log = <<<<"fetch", 500>>, <<"backoff", 0>>, <<"fetch", 500>>,
                    <<"backoff", 1>>, <<"fetch", 409>>>>

\* C35: on a 401, uploadPhoto refreshes the cookies and retries the upload
\* at most once: a call makes at most two POSTs and at most one cookie
\* refresh, and it has returned or thrown by then.
C35_UploadRetriesOnce ==
  input.method = "uploadPhoto"
    => /\ Cardinality(Entries(output.log, "fetch")) <= 2
       /\ Cardinality(Entries(output.log, "refresh")) <= 1
       /\ output.result # "pending"

\* --------------------------------------------------------- notifications
\* This step delivers alert a: a sendAlert call for it settles with an OK
\* response of at least one channel.
Delivers(a) ==
  /\ sending'[a] = sending[a] - 1
  /\ event'.op = "settle"
  /\ event'.result = "delivered"

\* C32: the same (level, message) alert is delivered at most once per
\* throttle window unless its throttle entry was cleared in between,
\* whether or not the sendAlert calls overlap; a sendAlert call for one
\* alert neither changes the throttle entry of another nor is throttled
\* by it.
C32_OncePerWindow ==
  [][\A a \in Alerts :
       LET key == getAlertKey(a.message, a.level)
       IN /\ (Delivers(a) /\ key \in DOMAIN delivered)
               => now - delivered[key] >= ThrottleMs
          /\ sending'[a] # sending[a]
               => \A k \in DOMAIN notifications.sentAlerts \ {key} :
                    /\ k \in DOMAIN notifications'.sentAlerts
                    /\ notifications'.sentAlerts[k]
                         = notifications.sentAlerts[k]
          /\ (sending'[a] = sending[a] + 1
                /\ key \in DOMAIN notifications.sentAlerts)
               => now - notifications.sentAlerts[key] >= ThrottleMs]_vars

\* C33: a call of refreshCookies that does not refresh the cookies calls
\* sendAlert when a notification channel is configured.
C33_RefreshFailureAlerts ==
  (event.op = "refreshCookies" /\ event.result # "ok"
     /\ Channels(notifications.config) # {})
    => event.alerted

\* C38: the throttle entry of an alert is written only by a sendAlert call
\* for that alert that got an OK response from at least one channel; a
\* call whose delivery failed on every configured channel, or that found
\* no channel configured, leaves sentAlerts as it is.
C38_MarkedAfterSuccess ==
  [][\A a \in Alerts :
       LET key == getAlertKey(a.message, a.level)
           before == notifications.sentAlerts
           after == notifications'.sentAlerts
       IN (key \in DOMAIN after
             /\ (key \notin DOMAIN before \/ after[key] # before[key]))
            => Delivers(a)]_vars

\* ------------------------------------------------ cycles, once more
\* C34: after a hard-delete cycle no row of the Store references a node
\* that the cycle trashed or purged, also when several source ids share
\* the node and only some of them left the source.  Stated for the cycles
\* whose removal batch went through, target calls and Store deletes alike.
C34_NoRowOnDeletedNode ==
  (pc = "idle" /\ syncDeletions /\ BatchSucceeded /\ ~storeFailed)
    => \A k \in DOMAIN store :
         ~Done("trash", store[k].amazonId) /\ ~Done("purge", store[k].amazonId)

\* C37 as stated: after a hard-delete cycle that got its listing, in which
\* no addition failed, the removal batch (when there was one) went through
\* and no operator deleted a mapping since the diff, the source ids of the
\* Store are the ids of the listing of that cycle.
C37_Original ==
  (/\ pc = "idle" /\ cycles > 0 /\ syncDeletions
   /\ last # "nolisting"
   /\ photosFailed = 0
   /\ Len(toRemove) > 0 => (BatchSucceeded /\ ~storeFailed)
   /\ ~opDelete)
    => StoreIds(store) = SeqToSet(icloudPhotos)

\* C37 amended: the same, for the cycles that did not throw; a cycle that
\* threw before its first item (the read of the Store or the
\* initialisation of the client failed) made no addition and no removal
\* call, left the Store as it was and is reported with success = false.
C37_StoreMirrorsListing ==
  /\ []((/\ pc = "idle" /\ cycles > 0 /\ syncDeletions
         /\ last \in {"clean", "partial"}
         /\ photosFailed = 0
         /\ Len(toRemove) > 0 => (BatchSucceeded /\ ~storeFailed)
         /\ ~opDelete)
          => StoreIds(store) = SeqToSet(icloudPhotos))
  /\ []((pc = "idle" /\ last = "failed")
          => /\ ~LastSucceeded
             /\ \A k \in DOMAIN calls :
                  calls[k].op \notin AdditionOps \cup RemovalOps)
  /\ [][(CycleEnds /\ last' = "failed") => store' = store]_vars

C37_Witness ==
  /\ pc = "idle" /\ cycles = 2 /\ syncDeletions
  /\ last = "clean"
  /\ Len(toAdd) = 1 /\ photosAdded = 1
  /\ Len(toRemove) = 1 /\ BatchSucceeded /\ ~storeFailed
  /\ ~opDelete
  /\ StoreIds(store) = SeqToSet(icloudPhotos)

\* C39: a cycle whose getPhotos call rejects sends nothing to the target
\* and leaves the Store, the target and the client fields of the engine
\* as they are, from its start to its end, and is reported with
\* success = false.
C39_ListingFailureFrame ==
  /\ [](pc = "listing" => calls = <<>>)
  /\ [][(pc = "idle" /\ pc' = "listing")
          => /\ store' = store
             /\ UNCHANGED <<amazon, albumId, targetVars>>]_vars
  /\ [][(pc = "listing" /\ pc' = "idle" /\ last' = "nolisting")
          => /\ store' = store
             /\ calls' = <<>>
             /\ UNCHANGED <<amazon, albumId, targetVars, mappings, toAdd,
                            toRemove>>
             /\ metrics'.amazonAuthenticated = metrics.amazonAuthenticated
             /\ ~metrics'.lastSync[1].success]_vars

C39_Witness ==
  /\ pc = "idle" /\ last = "nolisting" /\ cycles = 2
  /\ Len(store) = 2
  /\ metrics.totalErrors = 1
  /\ ~metrics.lastSync[1].success
  /\ calls = <<>>

\* C40: the counters never decrease; every cycle that ends adds one to
\* totalSyncs, every cycle that throws adds one to totalErrors, and a
\* dropped trigger leaves the metrics as they are.
C40_CountersPerCycle ==
  [][/\ metrics'.totalSyncs >= metrics.totalSyncs
     /\ metrics'.totalErrors >= metrics.totalErrors
     /\ CycleEnds => metrics'.totalSyncs = metrics.totalSyncs + 1
     /\ (CycleEnds /\ ~metrics'.lastSync[1].success)
          => metrics'.totalErrors = metrics.totalErrors + 1
     /\ (CycleEnds /\ metrics'.lastSync[1].success)
          => metrics'.totalErrors = metrics.totalErrors
     /\ lastTrigger' = "dropped" => metrics' = metrics]_vars

====
